---- MODULE Spec2Model ----
(***************************************************************************)
(* The Service Fabric REST client of terraform-provider-servicefabric and  *)
(* its long-running-operation orchestration (internal/servicefabric):      *)
(* UpgradeApplication with its conflict retry, waitForApplicationUpgrade,  *)
(* pollOperation and the 202 re-read of GetApplication.                    *)
(*                                                                         *)
(* A call of an exported method is a frame: a record holding the method's  *)
(* position (pc), its local variables, the state of its context and, as    *)
(* history fields, what it has sent and received so far.  Each step of the *)
(* code is an operator from a frame and the cluster's raw answer to the    *)
(* next frame.  Spec runs one call against a cluster that may answer       *)
(* anything; SpecConc runs two UpgradeApplication calls against a cluster  *)
(* that admits one upgrade at a time.                                      *)
(***************************************************************************)
EXTENDS Integers, Sequences, FiniteSets, TLC

VARIABLES
    call,      \* caller -> frame of that caller's call
    budget,    \* HTTP requests the cluster still answers in this run
    cluster,   \* the cluster's upgrade state of the application (SpecConc)
    client     \* the *Client all callers share

vars == <<call, budget, cluster, client>>

(***************************************************************************)
(* Bounds of the model.                                                    *)
(***************************************************************************)
MaxRequests == 5    \* HTTP requests answered in one run of Spec

(***************************************************************************)
(* Errors.  A Go error is a record; kind "nil" is the nil error, "api" an  *)
(* *APIError, "ctx" the context's own error ctx.Err(), "urlctx" the        *)
(* *url.Error http.Client.Do returns for a cancelled context, "net" any    *)
(* other transport error, "auth" a failure of Authenticator.Apply and      *)
(* "local" an error built with fmt.Errorf.                                 *)
(***************************************************************************)
Err(kind, status, code, msg) ==
    [kind |-> kind, status |-> status, code |-> code, msg |-> msg]

Nil == Err("nil", 0, "", <<>>)

Pending == Err("pending", 0, "", <<>>)

StatusAccepted == 202

StatusNoContent == 204

StatusNotFound == 404

StatusConflict == 409

ErrorStatusFloor == 400

CodeUpgradeInProgress == "FABRIC_E_APPLICATION_UPGRADE_IN_PROGRESS"

APIError(status, code) == Err("api", status, code, <<>>)

ctxErr == Err("ctx", 0, "", <<"context canceled">>)

urlCtxErr == Err("urlctx", 0, "", <<"context canceled">>)

IsNotFoundError_Any4xx(err) ==
    err.kind = "api" /\ err.status >= ErrorStatusFloor

IsNotFoundError(err) ==
    err.kind = "api" /\ err.status = StatusNotFound

IsApplicationUpgradeInProgressError(err) ==
    /\ err.kind = "api"
    /\ err.status = StatusConflict
    /\ err.code = CodeUpgradeInProgress

(***************************************************************************)
(* The raw answer of the transport and the cluster to one request.  kind   *)
(* "authfail": Authenticator.Apply failed and nothing was sent; "neterr":  *)
(* http.Client.Do failed; "http": a response with a status, the error code *)
(* of the cluster's error envelope, a Location header, a Retry-After       *)
(* header and a body.                                                      *)
(***************************************************************************)
Raw(kind, status, code, loc, hdr, body) ==
    [kind |-> kind, status |-> status, code |-> code, loc |-> loc,
     hdr |-> hdr, body |-> body]

NoBody == [ok |-> TRUE, empty |-> TRUE, readErr |-> FALSE]

AuthFail == Raw("authfail", 0, "", "", <<>>, NoBody)

NetErr == Raw("neterr", 0, "", "", <<>>, NoBody)

Http(status, code, body) == Raw("http", status, code, "", <<>>, body)

\* (variant: a 404 response is no error)
doRequest_NotFoundOK(cancelled, raw) ==
    IF raw.kind = "authfail"
      THEN [err |-> Err("auth", 0, "", <<"failed to get token">>), resp |-> raw, sent |-> FALSE]
    ELSE IF cancelled
      THEN [err |-> urlCtxErr, resp |-> raw, sent |-> TRUE]
    ELSE IF raw.kind = "neterr"
      THEN [err |-> Err("net", 0, "", <<"transport">>), resp |-> raw, sent |-> TRUE]
    ELSE IF raw.status >= ErrorStatusFloor /\ raw.status # StatusNotFound
      THEN [err |-> APIError(raw.status, raw.code), resp |-> raw, sent |-> TRUE]
    ELSE [err |-> Nil, resp |-> raw, sent |-> TRUE]

\* doRequest: the authenticator is applied first, then the request is sent
\* with the caller's context; a status of 400 and above becomes an *APIError.
\* sent tells whether the request reached http.Client.Do.
doRequest(cancelled, raw) ==
    IF raw.kind = "authfail"
      THEN [err |-> Err("auth", 0, "", <<"failed to get token">>), resp |-> raw, sent |-> FALSE]
    ELSE IF cancelled
      THEN [err |-> urlCtxErr, resp |-> raw, sent |-> TRUE]
    ELSE IF raw.kind = "neterr"
      THEN [err |-> Err("net", 0, "", <<"transport">>), resp |-> raw, sent |-> TRUE]
    ELSE IF raw.status >= ErrorStatusFloor
      THEN [err |-> APIError(raw.status, raw.code), resp |-> raw, sent |-> TRUE]
    ELSE [err |-> Nil, resp |-> raw, sent |-> TRUE]

(***************************************************************************)
(* Upgrade states (the constants of lines 419-426 and the literals of the  *)
(* switch in waitForApplicationUpgrade).                                   *)
(***************************************************************************)
upgradeStateRollingForwardDone == "RollingForwardCompleted"

upgradeStateRollingBackDone == "RollingBackCompleted"

upgradeStateRollingBackProgress == "RollingBackInProgress"

upgradeStateFailed == "Failed"

TickerPeriod == 5000     \* time.NewTicker(5 * time.Second), in milliseconds

(***************************************************************************)
(* Frames.                                                                 *)
(***************************************************************************)
NoPoll ==
    [class |-> "none",
     o |-> [ok |-> TRUE, readErr |-> FALSE, Status |-> "", StateF |-> "",
            Error |-> [isNil |-> TRUE, Message |-> ""]]]

NoRead == [err |-> Pending, status |-> 0, loc |-> "", body |-> NoBody]

NoProgress == [err |-> Pending, UpgradeState |-> "(none)", UpgradeStatusDetails |-> ""]

EntryOf(op) ==
    CASE op = "Upgrade" -> "up_entry"
      [] op = "Poll" -> "p_entry"
      [] op = "GetApp" -> "ga_read"
      [] op = "Provision" -> "prov_post"
      [] op = "Unprovision" -> "unprov_post"
      [] op = "CreateApp" -> "create_entry"
      [] op = "DeleteApp" -> "delete_post"
      [] op = "GetTypeVersion" -> "gtv_list"
      [] OTHER -> "res_entry"

NewFrame(op, name, location) ==
    [op |-> op, name |-> name, location |-> location,
     pc |-> EntryOf(op), stack |-> <<>>, rv |-> Nil, result |-> Pending,
     cancelled |-> FALSE,
     wake |-> "",            \* where the goroutine stands in a select
     tick |-> FALSE,         \* ticker.C holds a tick that was not received
     timer |-> 0,            \* duration of the timer of the select, in ms
     \* history of the call
     sent |-> 0,             \* requests handed to http.Client.Do
     starts |-> <<>>,        \* result of each startApplicationUpgrade call
     waitsAtStart |-> <<>>,  \* waits begun before each of these calls
     waits |-> 0,            \* waitForApplicationUpgrade calls begun
     waitLog |-> <<>>,       \* one entry for each wait that returned
     polls |-> 0,            \* getApplicationUpgradeProgress calls, all waits
     pollsInWait |-> 0,      \* the same, of the current or last wait
     lastProg |-> NoProgress,\* answer to the last progress poll
     \* pollOperation
     delay |-> 0,            \* the local variable delay, in ms
     pollReqs |-> 0,         \* GETs of the current or last pollOperation call
     lastPoll |-> NoPoll,    \* what the last of them got
     lastIntHdr |-> <<>>,    \* the last Retry-After that was an integer > 0
     pollLog |-> <<>>,       \* one entry for each pollOperation that returned
     \* GetApplication
     reads |-> 0,            \* GETs of the application
     n202 |-> 0,             \* those answered 202
     n202loc |-> 0,          \* those answered 202 with a Location
     lastRead |-> NoRead,    \* the answer to the last of them
     value |-> "",           \* the *ApplicationInfo returned, if any
     \* the mutating POSTs and the list of application types
     posts |-> <<>>,         \* method and outcome of each mutating POST
     version |-> "",         \* the version argument
     lists |-> 0,            \* GETs of /ApplicationTypes
     items |-> <<>>,         \* the Items of the list the cluster sent
     listErr |-> Pending,    \* the error of ListApplicationTypeVersions
     item |-> <<>>,          \* the item GetApplicationTypeVersion returned
     \* the resource layer
     recreateOnUpgrade |-> FALSE,  \* features.ApplicationRecreateOnUpgrade
     policyForceRestart |-> "",    \* upgrade_policy.force_restart, "" if unset
     retainVersions |-> "",        \* retain_versions of the state, "" if null
     upgradeDesc |-> <<>>,   \* the descriptions passed to UpgradeApplication
     upgradeErrs |-> <<>>,   \* what these calls of UpgradeApplication returned
     \* Update of the application resource: the plan and the state
     typeNameChanged |-> FALSE,    \* plan.TypeName differs from state.TypeName
     stateVersion |-> "",          \* state.TypeVersion (version is the plan's)
     parametersChanged |-> FALSE,  \* !stringMapEqual(planParams, stateParams)
     planParameters |-> <<>>,      \* plan.Parameters, <<>> when null
     stateParameters |-> <<>>,     \* state.Parameters, <<>> when null
     planCapacity |-> <<>>, stateCapacity |-> <<>>,
     planIdentity |-> <<>>, stateIdentity |-> <<>>,
     \* Update of the service resource: the plan, the state, and the result
     \* of buildUpdateDescription ([changed, desc], once it was called)
     planService |-> <<>>, stateService |-> <<>>, built |-> <<>>,
     \* Create of the service resource: the partition block of the plan and
     \* the result of expandPartitionDescription, once it was called
     planPartition |-> <<>>, partition |-> <<>>,
     diags |-> <<>>,         \* summaries of Diagnostics.AddError
     warnings |-> <<>>,      \* summaries of Diagnostics.AddWarning
     removed |-> FALSE,      \* State.RemoveResource was called
     stateSet |-> FALSE,     \* State.Set was called
     \* cancellation
     cancelledInWait |-> FALSE, cancelSite |-> "", sentAtCancel |-> 0]

\* return err from the function on top of the stack
Return(f, err) ==
    IF f.stack = <<>>
      THEN [f EXCEPT !.pc = "done", !.result = err]
      ELSE [f EXCEPT !.pc = Head(f.stack), !.stack = Tail(f.stack), !.rv = err]

\* call the function whose first step is entry; ret is where the caller resumes
Call(f, entry, ret) ==
    [f EXCEPT !.pc = entry, !.stack = <<ret>> \o f.stack]

(***************************************************************************)
(* select { case <-ctx.Done(): return ctx.Err(); case <-timer: }           *)
(* wake = "entering": the goroutine reaches the select; "parked": no case  *)
(* was ready and it sleeps; "ctx" / "timer": the case that woke it.        *)
(***************************************************************************)
\* The cases ready on entry.  With both ready Go picks either.
SelectReady(cancelled, timerReady) ==
    IF cancelled /\ timerReady THEN {"ctx", "timer"}
    ELSE IF cancelled THEN {"ctx"}
    ELSE IF timerReady THEN {"timer"}
    ELSE {"parked"}

EnterSelect(f, label, duration) ==
    [f EXCEPT !.pc = label, !.timer = duration, !.wake = "entering"]

\* (variant: the select has no ctx.Done() case)
LeaveSelect_NoCtxCase(f, w, next) ==
    [f EXCEPT !.wake = "", !.timer = 0, !.tick = FALSE, !.pc = next]

\* The goroutine leaves the select by case w and goes on at next, or returns
\* the context's error.
LeaveSelect(f, w, next) ==
    IF w = "ctx"
      THEN Return([f EXCEPT !.wake = "", !.timer = 0], ctxErr)
      ELSE [f EXCEPT !.wake = "", !.timer = 0, !.tick = FALSE, !.pc = next]

\* One step of the goroutine at a select: on entry it takes a ready case w or
\* parks; once woken it leaves by the case that woke it.
Select(f, w, next) ==
    IF f.wake = "entering"
      THEN IF w = "parked" THEN [f EXCEPT !.wake = "parked"]
           ELSE LeaveSelect(f, w, next)
      ELSE LeaveSelect(f, f.wake, next)

(***************************************************************************)
(* UpgradeApplication and waitForApplicationUpgrade.                       *)
(***************************************************************************)
errNameRequired == Err("local", 0, "", <<"application name required">>)

errDecode == Err("local", 0, "", <<"decode">>)

errUpgradeFailed(progress) ==
    Err("local", 0, "",
        <<"application upgrade failed", progress.UpgradeState,
          progress.UpgradeStatusDetails>>)

startApplicationUpgrade(cancelled, raw) ==
    LET r == doRequest(cancelled, raw)
    IN  [err |-> r.err, sent |-> r.sent]

getApplicationUpgradeProgress(cancelled, raw) ==
    LET r == doRequest(cancelled, raw)
    IN  IF r.err # Nil
          THEN [err |-> r.err, progress |-> raw.body, sent |-> r.sent]
        ELSE IF ~raw.body.ok
          THEN [err |-> errDecode, progress |-> raw.body, sent |-> r.sent]
        ELSE [err |-> Nil, progress |-> raw.body, sent |-> r.sent]

Sent(f, r) == IF r.sent THEN f.sent + 1 ELSE f.sent

\* the call of waitForApplicationUpgrade: the ticker is created
waitForApplicationUpgrade(f, ret) ==
    Call([f EXCEPT !.waits = @ + 1, !.pollsInWait = 0, !.tick = FALSE,
                   !.lastProg = NoProgress],
         "w_poll", ret)

\* waitForApplicationUpgrade returns err, from its switch or from its select
waitReturn(f, err, fromSelect) ==
    Return([f EXCEPT !.waitLog =
                Append(@, [rv |-> err, last |-> f.lastProg,
                           polls |-> f.pollsInWait, fromSelect |-> fromSelect,
                           afterStarts |-> Len(f.starts)])],
           err)

\* a start request is made: its result, and the waits begun before it
Started(f, r) ==
    [f EXCEPT !.sent = Sent(f, r), !.starts = Append(@, r.err),
              !.waitsAtStart = Append(@, f.waits)]

\* lines 452-463: the name check and the defaults
\* (variant: the name is not looked at)
UpgradeApplication_entry_AnyName(f) == [f EXCEPT !.pc = "up_start"]

UpgradeApplication_entry(f) ==
    IF f.name = "" THEN Return(f, errNameRequired)
    ELSE [f EXCEPT !.pc = "up_start"]

\* (variant: the conflict on the first start is returned to the caller)
UpgradeApplication_start_ConflictFatal(f, raw) ==
    LET r == startApplicationUpgrade(f.cancelled, raw)
        g == Started(f, r)
    IN  IF r.err # Nil THEN Return(g, r.err)
        ELSE waitForApplicationUpgrade(g, "up_final")

\* (variant: an accepted start returns success without the wait)
UpgradeApplication_start_NoWait(f, raw) ==
    LET r == startApplicationUpgrade(f.cancelled, raw)
        g == Started(f, r)
    IN  IF r.err # Nil
          THEN IF IsApplicationUpgradeInProgressError(r.err)
                 THEN waitForApplicationUpgrade(g, "up_retry")
                 ELSE Return(g, r.err)
          ELSE Return(g, Nil)

\* lines 464-476, the first start request
UpgradeApplication_start(f, raw) ==
    LET r == startApplicationUpgrade(f.cancelled, raw)
        g == Started(f, r)
    IN  IF r.err # Nil
          THEN IF IsApplicationUpgradeInProgressError(r.err)
                 THEN waitForApplicationUpgrade(g, "up_retry")
                 ELSE Return(g, r.err)
          ELSE waitForApplicationUpgrade(g, "up_final")

\* (variant: a conflict on the retry waits and retries again)
UpgradeApplication_retry_Loop(f, raw) ==
    IF f.rv # Nil THEN Return(f, f.rv)
    ELSE LET r == startApplicationUpgrade(f.cancelled, raw)
             g == Started(f, r)
         IN  IF r.err # Nil
               THEN IF IsApplicationUpgradeInProgressError(r.err)
                      THEN waitForApplicationUpgrade(g, "up_retry")
                      ELSE Return(g, r.err)
             ELSE waitForApplicationUpgrade(g, "up_final")

\* lines 466-471: after the wait for the upgrade in flight, the second start
UpgradeApplication_retry(f, raw) ==
    IF f.rv # Nil THEN Return(f, f.rv)
    ELSE LET r == startApplicationUpgrade(f.cancelled, raw)
             g == Started(f, r)
         IN  IF r.err # Nil THEN Return(g, r.err)
             ELSE waitForApplicationUpgrade(g, "up_final")

\* line 476
UpgradeApplication_final(f) == Return(f, f.rv)

\* lines 504-513: what the switch on progress.UpgradeState decides
UpgradeStateVerdict_NoEmpty(state) ==
    IF state = upgradeStateRollingForwardDone THEN "success"
    ELSE IF state \in {upgradeStateRollingBackDone, upgradeStateFailed} THEN "failure"
    ELSE "continue"

UpgradeStateVerdict(state) ==
    IF state \in {upgradeStateRollingForwardDone, ""} THEN "success"
    ELSE IF state \in {upgradeStateRollingBackDone, upgradeStateFailed} THEN "failure"
    ELSE "continue"

\* (variant: a failed progress request is tried again at the next tick)
waitForApplicationUpgrade_poll_RetryErrors(f, raw, late) ==
    LET r == getApplicationUpgradeProgress(f.cancelled, raw)
        g == [f EXCEPT !.sent = Sent(f, r), !.polls = @ + 1,
                       !.pollsInWait = @ + 1, !.tick = late,
                       !.lastProg = [err |-> r.err,
                                     UpgradeState |-> r.progress.UpgradeState,
                                     UpgradeStatusDetails |-> r.progress.UpgradeStatusDetails]]
    IN  IF r.err # Nil
          THEN IF IsNotFoundError(r.err) THEN waitReturn(g, Nil, FALSE)
               ELSE EnterSelect(g, "w_select", TickerPeriod)
        ELSE CASE UpgradeStateVerdict(r.progress.UpgradeState) = "success" ->
                    waitReturn(g, Nil, FALSE)
               [] UpgradeStateVerdict(r.progress.UpgradeState) = "failure" ->
                    waitReturn(g, errUpgradeFailed(r.progress), FALSE)
               [] OTHER -> EnterSelect(g, "w_select", TickerPeriod)

\* lines 495-513: one progress poll; late: the ticker fired while the request
\* was in flight
waitForApplicationUpgrade_poll(f, raw, late) ==
    LET r == getApplicationUpgradeProgress(f.cancelled, raw)
        g == [f EXCEPT !.sent = Sent(f, r), !.polls = @ + 1,
                       !.pollsInWait = @ + 1, !.tick = late,
                       !.lastProg = [err |-> r.err,
                                     UpgradeState |-> r.progress.UpgradeState,
                                     UpgradeStatusDetails |-> r.progress.UpgradeStatusDetails]]
    IN  IF r.err # Nil
          THEN IF IsNotFoundError(r.err) THEN waitReturn(g, Nil, FALSE)
               ELSE waitReturn(g, r.err, FALSE)
        ELSE CASE UpgradeStateVerdict(r.progress.UpgradeState) = "success" ->
                    waitReturn(g, Nil, FALSE)
               [] UpgradeStateVerdict(r.progress.UpgradeState) = "failure" ->
                    waitReturn(g, errUpgradeFailed(r.progress), FALSE)
               [] OTHER -> EnterSelect(g, "w_select", TickerPeriod)

\* lines 515-519
waitForApplicationUpgrade_select(f, w) ==
    IF Select(f, w, "w_poll").pc \in {"w_select", "w_poll"}
      THEN Select(f, w, "w_poll")
      ELSE waitReturn([f EXCEPT !.wake = "", !.timer = 0], ctxErr, TRUE)

(***************************************************************************)
(* time.ParseDuration, on a string given as the sequence of its            *)
(* characters; durations are in milliseconds, so the units below a         *)
(* millisecond (ns, us) are not among the characters of the model.         *)
(***************************************************************************)
Digits == {"0", "1", "2", "3", "4", "5", "6", "7", "8", "9"}

DigitValue(c) ==
    CASE c = "0" -> 0 [] c = "1" -> 1 [] c = "2" -> 2 [] c = "3" -> 3
      [] c = "4" -> 4 [] c = "5" -> 5 [] c = "6" -> 6 [] c = "7" -> 7
      [] c = "8" -> 8 [] c = "9" -> 9

RECURSIVE LeadingDigits(_)
LeadingDigits(s) ==
    IF s = <<>> \/ Head(s) \notin Digits THEN 0
    ELSE 1 + LeadingDigits(Tail(s))

RECURSIVE DecimalValue(_, _)
DecimalValue(s, n) ==
    IF n = 0 THEN 0 ELSE DecimalValue(s, n - 1) * 10 + DigitValue(s[n])

RECURSIVE Pow10(_)
Pow10(n) == IF n = 0 THEN 1 ELSE 10 * Pow10(n - 1)

\* the unit of a group: the characters up to the next '.' or digit
RECURSIVE UnitLength(_)
UnitLength(s) ==
    IF s = <<>> \/ Head(s) \in Digits \cup {"."} THEN 0
    ELSE 1 + UnitLength(Tail(s))

\* unitMap, in milliseconds; 0: unknown unit
UnitValue(u) ==
    CASE u = <<"m", "s">> -> 1
      [] u = <<"s">> -> 1000
      [] u = <<"m">> -> 60000
      [] u = <<"h">> -> 3600000
      [] OTHER -> 0

BadDuration == [ok |-> FALSE, d |-> 0]

\* the groups [0-9]*(\.[0-9]*)?[a-z]+ of a duration string
RECURSIVE ParseGroups(_)
ParseGroups(s) ==
    IF s = <<>> THEN [ok |-> TRUE, d |-> 0]
    ELSE LET n1 == LeadingDigits(s)
             s1 == SubSeq(s, n1 + 1, Len(s))
             dot == s1 # <<>> /\ Head(s1) = "."
             s2 == IF dot THEN Tail(s1) ELSE s1
             n2 == IF dot THEN LeadingDigits(s2) ELSE 0
             s3 == SubSeq(s2, n2 + 1, Len(s2))
             n3 == UnitLength(s3)
             unit == UnitValue(SubSeq(s3, 1, n3))
             rest == ParseGroups(SubSeq(s3, n3 + 1, Len(s3)))
         IN  IF n1 = 0 /\ n2 = 0 THEN BadDuration
             ELSE IF n3 = 0 \/ unit = 0 THEN BadDuration
             ELSE IF ~rest.ok THEN BadDuration
             ELSE [ok |-> TRUE,
                   d |-> DecimalValue(s, n1) * unit
                         + (DecimalValue(s2, n2) * unit) \div Pow10(n2)
                         + rest.d]

ParseDuration(s) ==
    LET signed == s # <<>> /\ Head(s) \in {"-", "+"}
        body == IF signed THEN Tail(s) ELSE s
        r == ParseGroups(body)
    IN  IF body = <<"0">> THEN [ok |-> TRUE, d |-> 0]
        ELSE IF body = <<>> \/ ~r.ok THEN BadDuration
        ELSE [ok |-> TRUE, d |-> IF Head(s) = "-" THEN 0 - r.d ELSE r.d]

(***************************************************************************)
(* pollOperation.                                                          *)
(***************************************************************************)
DefaultPollDelay == 5000      \* delay = 5 * time.Second, in milliseconds

\* strings.ToLower, on the state names of the payloads of the model
ToLower(s) ==
    CASE s = "Succeeded" -> "succeeded"
      [] s = "COMPLETE" -> "complete"
      [] s = "Faulted" -> "faulted"
      [] s = "InProgress" -> "inprogress"
      [] s = "Running" -> "running"
      [] s = "SUCCESS" -> "success"
      [] s = "Completed" -> "completed"
      [] s = "Failed" -> "failed"
      [] s = "FAILED" -> "failed"
      [] s = "Pending" -> "pending"
      [] OTHER -> s

\* (variant: the State field wins)
State_StateFirst(o) == IF o.StateF # "" THEN o.StateF ELSE o.Status

\* operationStatus.State
State(o) == IF o.Status # "" THEN o.Status ELSE o.StateF

\* operationStatus.ErrorString
ErrorString(o) == IF o.Error.isNil THEN "" ELSE o.Error.Message

\* lines 222-227: what the switch on the lower-cased state decides
\* (variant: "faulted" is missing from the failure case)
pollVerdict_NoFaulted(o) ==
    IF ToLower(State(o)) \in {"succeeded", "success", "completed", "complete"}
      THEN "success"
    ELSE IF ToLower(State(o)) \in {"failed"} THEN "failure"
    ELSE "continue"

pollVerdict(o) ==
    IF ToLower(State(o)) \in {"succeeded", "success", "completed", "complete"}
      THEN "success"
    ELSE IF ToLower(State(o)) \in {"failed", "faulted"} THEN "failure"
    ELSE "continue"

\* lines 229-233: the delay after a response with Retry-After header hdr
nextDelay(delay, hdr) ==
    IF hdr # <<>> /\ ParseDuration(hdr \o <<"s">>).ok
                  /\ ParseDuration(hdr \o <<"s">>).d > 0
      THEN ParseDuration(hdr \o <<"s">>).d
      ELSE delay

\* url.Parse of the Location, in resolveLocation (lines 750-754)
resolveLocation(location) ==
    IF location = "%zz"
      THEN [err |-> Err("local", 0, "", <<"invalid URL escape">>)]
      ELSE [err |-> Nil]

errPollingFailed(status) ==
    Err("local", status, "", <<"operation polling failed">>)

errOperationFailed(o) ==
    Err("local", 0, "", <<"operation failed", ErrorString(o)>>)

\* pollOperation returns err, from its switch or from its select
pollReturn(f, err, fromSelect) ==
    Return([f EXCEPT !.pollLog =
                Append(@, [rv |-> err, last |-> f.lastPoll,
                           reqs |-> f.pollReqs, fromSelect |-> fromSelect])],
           err)

\* a call of pollOperation(ctx, location); ret is where the caller resumes
callPollOperation(f, location, ret) ==
    Call([f EXCEPT !.location = location, !.pollReqs = 0, !.delay = 0,
                   !.lastPoll = NoPoll, !.lastIntHdr = <<>>],
         "p_entry", ret)

\* (variant: an empty Location is an error)
pollOperation_entry_EmptyFails(f) ==
    IF f.location = ""
      THEN pollReturn(f, Err("local", 0, "", <<"missing Location">>), FALSE)
    ELSE IF resolveLocation(f.location).err # Nil
      THEN pollReturn([f EXCEPT !.delay = DefaultPollDelay],
                      resolveLocation(f.location).err, FALSE)
    ELSE [f EXCEPT !.delay = DefaultPollDelay, !.pc = "p_req"]

\* lines 180-192: the empty Location, the initial delay, and the Location's
\* parse, which gives the same result in every round of the loop
pollOperation_entry(f) ==
    IF f.location = "" THEN pollReturn(f, Nil, FALSE)
    ELSE IF resolveLocation(f.location).err # Nil
      THEN pollReturn([f EXCEPT !.delay = DefaultPollDelay],
                      resolveLocation(f.location).err, FALSE)
    ELSE [f EXCEPT !.delay = DefaultPollDelay, !.pc = "p_req"]

\* a header that is a decimal integer above zero (history only)
IsPositiveInteger(hdr) ==
    /\ hdr # <<>>
    /\ LeadingDigits(hdr) = Len(hdr)
    /\ DecimalValue(hdr, Len(hdr)) > 0

\* what a poll got: "status" is a decoded operation status
PollClass(cancelled, raw) ==
    IF raw.kind = "authfail" THEN "auth"
    ELSE IF cancelled THEN "ctx"
    ELSE IF raw.kind = "neterr" THEN "net"
    ELSE IF raw.body.readErr THEN "read"
    ELSE IF raw.status >= ErrorStatusFloor THEN "http4xx"
    ELSE IF ~raw.body.ok THEN "decode"
    ELSE "status"

\* lines 193-234: one GET of the Location and what the loop does with it
pollOperation_poll(f, raw) ==
    LET class == PollClass(f.cancelled, raw)
        g == [f EXCEPT !.sent = IF class = "auth" THEN @ ELSE @ + 1,
                       !.pollReqs = @ + 1,
                       !.lastPoll = [class |-> class,
                                     o |-> IF class = "status" THEN raw.body
                                           ELSE NoPoll.o]]
    IN  CASE class = "auth" ->
               pollReturn(g, Err("auth", 0, "", <<"failed to get token">>), FALSE)
          [] class = "ctx" -> pollReturn(g, urlCtxErr, FALSE)
          [] class = "net" -> pollReturn(g, Err("net", 0, "", <<"transport">>), FALSE)
          [] class = "read" -> pollReturn(g, Err("net", 0, "", <<"read body">>), FALSE)
          [] class = "http4xx" -> pollReturn(g, errPollingFailed(raw.status), FALSE)
          [] class = "decode" -> pollReturn(g, errDecode, FALSE)
          [] class = "status" /\ pollVerdict(raw.body) = "success" ->
               pollReturn(g, Nil, FALSE)
          [] class = "status" /\ pollVerdict(raw.body) = "failure" ->
               pollReturn(g, errOperationFailed(raw.body), FALSE)
          [] OTHER ->
               EnterSelect([g EXCEPT !.delay = nextDelay(f.delay, raw.hdr),
                                     !.lastIntHdr = IF IsPositiveInteger(raw.hdr)
                                                      THEN raw.hdr ELSE @],
                           "p_select", nextDelay(f.delay, raw.hdr))

\* lines 235-239
pollOperation_select(f, w) ==
    IF Select(f, w, "p_req").pc \in {"p_select", "p_req"}
      THEN Select(f, w, "p_req")
      ELSE pollReturn([f EXCEPT !.wake = "", !.timer = 0], ctxErr, TRUE)

(***************************************************************************)
(* GetApplication.                                                         *)
(***************************************************************************)
GetBackoff == 2000      \* time.After(2 * time.Second), in milliseconds

\* (variant: the error carries the status of the response)
errNoContent_Status204 == Err("api", StatusNoContent, "", <<"application not found">>)

errNoContent == Err("api", StatusNotFound, "", <<"application not found">>)

errEmptyResponse == Err("local", 0, "", <<"empty response retrieving application">>)

\* (variant: the re-read gives up after two reads)
GetApplication_read_Capped(f, raw) ==
    LET r == doRequest(f.cancelled, raw)
        g == [f EXCEPT !.sent = IF r.sent THEN @ + 1 ELSE @,
                       !.reads = @ + 1,
                       !.lastRead = [err |-> r.err, status |-> raw.status,
                                     loc |-> raw.loc, body |-> raw.body],
                       !.n202 = IF r.err = Nil /\ raw.status = StatusAccepted
                                  THEN @ + 1 ELSE @,
                       !.n202loc = IF r.err = Nil /\ raw.status = StatusAccepted
                                        /\ raw.loc # ""
                                     THEN @ + 1 ELSE @]
    IN  IF r.err # Nil THEN Return(g, r.err)
        ELSE IF raw.status = StatusAccepted
          THEN IF g.reads >= 2 THEN Return(g, errEmptyResponse)
               ELSE IF raw.loc # ""
                 THEN callPollOperation(g, raw.loc, "ga_polled")
                 ELSE EnterSelect(g, "ga_backoff", GetBackoff)
        ELSE IF raw.status = StatusNoContent THEN Return(g, errNoContent)
        ELSE IF raw.body.readErr THEN Return(g, Err("net", 0, "", <<"read body">>))
        ELSE IF raw.body.empty THEN Return(g, errEmptyResponse)
        ELSE IF ~raw.body.ok THEN Return(g, errDecode)
        ELSE Return([g EXCEPT !.value = "info"], Nil)

\* lines 540-592: one read of the application and what follows from it
GetApplication_read(f, raw) ==
    LET r == doRequest(f.cancelled, raw)
        g == [f EXCEPT !.sent = IF r.sent THEN @ + 1 ELSE @,
                       !.reads = @ + 1,
                       !.lastRead = [err |-> r.err, status |-> raw.status,
                                     loc |-> raw.loc, body |-> raw.body],
                       !.n202 = IF r.err = Nil /\ raw.status = StatusAccepted
                                  THEN @ + 1 ELSE @,
                       !.n202loc = IF r.err = Nil /\ raw.status = StatusAccepted
                                        /\ raw.loc # ""
                                     THEN @ + 1 ELSE @]
    IN  IF r.err # Nil THEN Return(g, r.err)
        ELSE IF raw.status = StatusAccepted
          THEN IF raw.loc # ""
                 THEN callPollOperation(g, raw.loc, "ga_polled")
                 ELSE EnterSelect(g, "ga_backoff", GetBackoff)
        ELSE IF raw.status = StatusNoContent THEN Return(g, errNoContent)
        ELSE IF raw.body.readErr THEN Return(g, Err("net", 0, "", <<"read body">>))
        ELSE IF raw.body.empty THEN Return(g, errEmptyResponse)
        ELSE IF ~raw.body.ok THEN Return(g, errDecode)
        ELSE Return([g EXCEPT !.value = "info"], Nil)

\* lines 556-565: after the poll of the Location
GetApplication_polled(f) ==
    IF f.rv # Nil THEN Return(f, f.rv)
    ELSE EnterSelect(f, "ga_backoff", GetBackoff)

\* lines 561-566: the backoff, then the read again
GetApplication_backoff(f, w) == Select(f, w, "ga_read")

(***************************************************************************)
(* The mutating POSTs: ProvisionApplicationType, UnprovisionApplicationType,*)
(* CreateApplication and DeleteApplication.  Each sends one POST and, on a *)
(* 202, returns what pollOperation returns for the Location header.        *)
(***************************************************************************)
\* (variant: the POST is sent again after a failure)
postThenPoll_Resend(f, method, raw) ==
    LET r == doRequest(f.cancelled, raw)
        g == [f EXCEPT !.sent = IF r.sent THEN @ + 1 ELSE @,
                       !.posts = Append(@, [method |-> method, err |-> r.err,
                                            status |-> raw.status,
                                            loc |-> raw.loc])]
    IN  IF r.err # Nil
          THEN IF Len(g.posts) < 2 THEN g ELSE Return(g, r.err)
        ELSE IF raw.status = StatusAccepted
          THEN callPollOperation(g, raw.loc, "post_polled")
        ELSE Return(g, Nil)

\* (variant: a 202 is taken as completion, without the poll)
postThenPoll_NoPoll(f, method, raw) ==
    LET r == doRequest(f.cancelled, raw)
        g == [f EXCEPT !.sent = IF r.sent THEN @ + 1 ELSE @,
                       !.posts = Append(@, [method |-> method, err |-> r.err,
                                            status |-> raw.status,
                                            loc |-> raw.loc])]
    IN  IF r.err # Nil THEN Return(g, r.err)
        ELSE Return(g, Nil)

\* the body shared by the four methods: doRequest, the 202 branch, the drain
postThenPoll(f, method, raw) ==
    LET r == doRequest(f.cancelled, raw)
        g == [f EXCEPT !.sent = IF r.sent THEN @ + 1 ELSE @,
                       !.posts = Append(@, [method |-> method, err |-> r.err,
                                            status |-> raw.status,
                                            loc |-> raw.loc])]
    IN  IF r.err # Nil THEN Return(g, r.err)
        ELSE IF raw.status = StatusAccepted
          THEN callPollOperation(g, raw.loc, "post_polled")
        ELSE Return(g, Nil)

\* lines 288-309
ProvisionApplicationType(f, raw) == postThenPoll(f, "Provision", raw)

\* lines 312-330
UnprovisionApplicationType(f, raw) == postThenPoll(f, "Unprovision", raw)

\* lines 380-383
CreateApplication_entry(f) ==
    IF f.name = "" THEN Return(f, errNameRequired)
    ELSE [f EXCEPT !.pc = "create_post"]

\* lines 384-396
CreateApplication(f, raw) == postThenPoll(f, "Create", raw)

\* lines 399-417
DeleteApplication(f, raw) == postThenPoll(f, "Delete", raw)

\* return c.pollOperation(ctx, location)
postPolled(f) == Return(f, f.rv)

(***************************************************************************)
(* ListApplicationTypeVersions and GetApplicationTypeVersion.              *)
(***************************************************************************)
\* simple case folding, on the names and versions of the model
Fold(s) ==
    CASE s = "Contoso.App" -> "contoso.app"
      [] s = "CONTOSO.APP" -> "contoso.app"
      [] s = "Other" -> "other"
      [] s = "1.0.0-RC" -> "1.0.0-rc"
      [] s = "6F9619FF-8B86-D011-B42D-00C04FC964FF" ->
             "6f9619ff-8b86-d011-b42d-00c04fc964ff"
      [] OTHER -> s

\* (variant: the comparison is exact)
EqualFold_Exact(a, b) == a = b

\* strings.EqualFold
EqualFold(a, b) == Fold(a) = Fold(b)

\* ApplicationTypeInfo.TypeName
TypeName(a) ==
    IF a.ApplicationTypeName # "" THEN a.ApplicationTypeName ELSE a.Name

\* ApplicationTypeInfo.TypeVersion
TypeVersion(a) ==
    IF a.ApplicationTypeVersion # "" THEN a.ApplicationTypeVersion ELSE a.Version

errTypeNotFound(name, version) ==
    Err("local", 0, "", <<"application type not found", name, version>>)

\* lines 347-376: the GET, the decoding, the filter by type name
ListApplicationTypeVersions(name, cancelled, raw) ==
    LET r == doRequest(cancelled, raw)
    IN  IF r.err # Nil THEN [err |-> r.err, items |-> <<>>, sent |-> r.sent]
        ELSE IF ~raw.body.ok
          THEN [err |-> errDecode, items |-> <<>>, sent |-> r.sent]
        ELSE IF name = ""
          THEN [err |-> Nil, items |-> raw.body.Items, sent |-> r.sent]
        ELSE [err |-> Nil, sent |-> r.sent,
              items |-> SelectSeq(raw.body.Items,
                                  LAMBDA a : EqualFold(TypeName(a), name))]

\* lines 338-342: the indexes of the items the loop would return
Matching(items, name, version) ==
    {i \in 1..Len(items) :
        /\ EqualFold(TypeName(items[i]), name)
        /\ EqualFold(TypeVersion(items[i]), version)}

\* lines 333-344
GetApplicationTypeVersion(f, raw) ==
    LET l == ListApplicationTypeVersions(f.name, f.cancelled, raw)
        m == Matching(l.items, f.name, f.version)
        g == [f EXCEPT !.sent = IF l.sent THEN @ + 1 ELSE @,
                       !.lists = @ + 1, !.items = raw.body.Items,
                       !.listErr = l.err]
    IN  IF l.err # Nil THEN Return(g, l.err)
        ELSE IF m = {} THEN Return(g, errTypeNotFound(f.name, f.version))
        ELSE Return([g EXCEPT !.item =
                        <<l.items[CHOOSE i \in m : \A j \in m : i <= j]>>], Nil)

(***************************************************************************)
(* The resource layer (internal/provider): Read, Delete and Create of the  *)
(* resources, as far as they decide on the client's errors.  A handler     *)
(* reports through Diagnostics (diags, warnings) and the state (removed,   *)
(* stateSet).                                                              *)
(***************************************************************************)
CodeAlreadyExists == "FABRIC_E_APPLICATION_ALREADY_EXISTS"

CodeTypeInUse == "FABRIC_E_APPLICATION_TYPE_IN_USE"

IsApplicationAlreadyExistsError(err) ==
    /\ err.kind = "api"
    /\ err.status = StatusConflict
    /\ err.code = CodeAlreadyExists

IsApplicationTypeInUseError(err) ==
    /\ err.kind = "api"
    /\ err.status = StatusConflict
    /\ err.code = CodeTypeInUse

\* the handler returns
Finish(f) == [f EXCEPT !.pc = "done", !.result = Nil]

AddError(f, summary) == Finish([f EXCEPT !.diags = Append(@, summary)])

AddWarning(f, summary) == Finish([f EXCEPT !.warnings = Append(@, summary)])

\* Client.GetService: one GET, the typed error of doRequest, the decoding
GetService(f, raw) ==
    LET r == doRequest(f.cancelled, raw)
        g == [f EXCEPT !.sent = IF r.sent THEN @ + 1 ELSE @,
                       !.reads = @ + 1,
                       !.lastRead = [err |-> r.err, status |-> raw.status,
                                     loc |-> raw.loc, body |-> raw.body]]
    IN  IF r.err # Nil THEN Return(g, r.err)
        ELSE IF ~raw.body.ok THEN Return(g, errDecode)
        ELSE Return([g EXCEPT !.value = "info"], Nil)

\* Client.DeleteService: one POST, the typed error of doRequest
DeleteService(f, raw) ==
    LET r == doRequest(f.cancelled, raw)
        g == [f EXCEPT !.sent = IF r.sent THEN @ + 1 ELSE @,
                       !.posts = Append(@, [method |-> "DeleteService",
                                            err |-> r.err, status |-> raw.status,
                                            loc |-> raw.loc])]
    IN  Return(g, r.err)

\* resource_application.go:959-978, the ForceRestart of the description
applyUpgradePolicy(policyForceRestart, defaultForce) ==
    IF policyForceRestart = "" THEN defaultForce
    ELSE policyForceRestart = "true"

\* resource_application.go:285-332, up to the call of CreateApplication
applicationResource_Create(f) == Call(f, "create_entry", "appcreate_created")

\* the refreshState that ends Create (lines 362-365)
applicationResource_Create_refresh(f) == Call(f, "ga_read", "appcreate_read")

\* (variant: the conflict starts the upgrade whatever the option says)
applicationResource_Create_created_Always(f) ==
    IF f.rv = Nil THEN applicationResource_Create_refresh(f)
    ELSE IF IsApplicationAlreadyExistsError(f.rv)
      THEN Call([f EXCEPT !.upgradeDesc =
                    Append(@, [Name |-> f.name,
                               TargetApplicationTypeVersion |-> f.version,
                               ParameterMap |-> "params",
                               ForceRestart |->
                                  applyUpgradePolicy(f.policyForceRestart, TRUE)])],
                "up_entry", "appcreate_upgraded")
    ELSE AddError(f, "Failed to create application")

\* resource_application.go:332-353: after CreateApplication
applicationResource_Create_created(f) ==
    IF f.rv = Nil THEN applicationResource_Create_refresh(f)
    ELSE IF f.recreateOnUpgrade /\ IsApplicationAlreadyExistsError(f.rv)
      THEN Call([f EXCEPT !.upgradeDesc =
                    Append(@, [Name |-> f.name,
                               TargetApplicationTypeVersion |-> f.version,
                               ParameterMap |-> "params",
                               ForceRestart |->
                                  applyUpgradePolicy(f.policyForceRestart, TRUE)])],
                "up_entry", "appcreate_upgraded")
    ELSE AddError(f, "Failed to create application")

\* resource_application.go:346-349: after UpgradeApplication
applicationResource_Create_upgraded(f) ==
    IF f.rv # Nil
      THEN AddError([f EXCEPT !.upgradeErrs = Append(@, f.rv)],
                    "Failed to upgrade existing application")
    ELSE applicationResource_Create_refresh(
             [f EXCEPT !.upgradeErrs = Append(@, f.rv)])

\* resource_application.go:362-368: after refreshState
applicationResource_Create_read(f) ==
    IF f.rv # Nil THEN AddError(f, "Failed to read application")
    ELSE Finish([f EXCEPT !.stateSet = TRUE])

\* resource_application.go:371-377 and refreshState (1012-1016)
applicationResource_Read(f) == Call(f, "ga_read", "appread_ret")

\* resource_application.go:378-387
applicationResource_Read_ret(f) ==
    IF f.rv # Nil
      THEN IF IsNotFoundError(f.rv) THEN Finish([f EXCEPT !.removed = TRUE])
           ELSE AddError(f, "Failed to read application")
    ELSE Finish([f EXCEPT !.stateSet = TRUE])

\* resource_application.go:520-527
applicationResource_Delete(f) == Call(f, "delete_post", "appdelete_ret")

\* (variant: every error of the delete is reported)
applicationResource_Delete_ret_Strict(f) ==
    IF f.rv # Nil THEN AddError(f, "Failed to delete application")
    ELSE Finish(f)

\* resource_application.go:527-532
applicationResource_Delete_ret(f) ==
    IF f.rv # Nil
      THEN IF IsNotFoundError(f.rv) THEN Finish(f)
           ELSE AddError(f, "Failed to delete application")
    ELSE Finish(f)

\* resource_service.go:305-313
serviceResource_Read(f) == Call(f, "svc_get", "svcread_ret")

\* resource_service.go:314-324
serviceResource_Read_ret(f) ==
    IF f.rv # Nil
      THEN IF IsNotFoundError(f.rv) THEN Finish([f EXCEPT !.removed = TRUE])
           ELSE AddError(f, "Failed to read service")
    ELSE Finish([f EXCEPT !.stateSet = TRUE])

\* resource_service.go:361-368
serviceResource_Delete(f) == Call(f, "svc_delete", "svcdelete_ret")

\* resource_service.go:369-375
serviceResource_Delete_ret(f) ==
    IF f.rv # Nil
      THEN IF IsNotFoundError(f.rv) THEN Finish(f)
           ELSE AddError(f, "Failed to delete service")
    ELSE Finish(f)

\* resource_application_type.go:117-123 and readIntoState (136-146)
applicationTypeResource_Read(f) == Call(f, "gtv_list", "typeread_ret")

\* resource_application_type.go:124-133
applicationTypeResource_Read_ret(f) ==
    IF f.rv # Nil
      THEN IF IsNotFoundError(f.rv) THEN Finish([f EXCEPT !.removed = TRUE])
           ELSE AddError(f, "Failed to read application type")
    ELSE Finish([f EXCEPT !.stateSet = TRUE])

\* part_003:97-110: Create provisions the version
applicationTypeResource_Create(f) ==
    Call(f, "prov_post", "typecreate_provisioned")

\* part_003:107-118: after ProvisionApplicationType, readIntoState
applicationTypeResource_Create_provisioned(f) ==
    IF f.rv # Nil THEN AddError(f, "Provisioning failed")
    ELSE Call(f, "gtv_list", "typecreate_read")

\* part_003:117-122: after readIntoState
applicationTypeResource_Create_read(f) ==
    IF f.rv # Nil THEN AddError(f, "Failed to read application type")
    ELSE Finish([f EXCEPT !.stateSet = TRUE])

\* part_003:200-218: retain_versions, null meaning retain
applicationTypeResource_Delete(f) ==
    IF f.retainVersions # "false" THEN Finish(f)
    ELSE Call(f, "unprov_post", "typedelete_ret")

\* part_003:219-232
\* (variant: a version still in use fails the destroy)
applicationTypeResource_Delete_ret_InUseFails(f) ==
    IF f.rv # Nil
      THEN IF IsNotFoundError(f.rv) THEN Finish(f)
           ELSE AddError(f, "Failed to unprovision application type")
    ELSE Finish(f)

applicationTypeResource_Delete_ret(f) ==
    IF f.rv # Nil
      THEN IF IsNotFoundError(f.rv) THEN Finish(f)
           ELSE IF IsApplicationTypeInUseError(f.rv)
             THEN AddWarning(f, "Application type still in use")
           ELSE AddError(f, "Failed to unprovision application type")
    ELSE Finish(f)

(***************************************************************************)
(* Update of the application resource (resource_application.go:390-518).   *)
(* An optional value (a null attribute, a nil pointer) is a sequence of    *)
(* length 0 or 1.                                                          *)
(***************************************************************************)
\* resource_application.go:980-988
int64PtrEqual(a, b) == a = b

\* resource_application.go:553-607: metrics without a name are dropped, and
\* a value without any setting is nil
expandApplicationCapacity(value) ==
    IF value = <<>> THEN <<>>
    ELSE LET metrics == SelectSeq(value[1].ApplicationMetrics,
                                  LAMBDA m : m.Name # "")
         IN  IF value[1].MinimumNodes = <<>> /\ value[1].MaximumNodes = <<>>
                    /\ metrics = <<>>
               THEN <<>>
               ELSE <<[MinimumNodes |-> value[1].MinimumNodes,
                       MaximumNodes |-> value[1].MaximumNodes,
                       ApplicationMetrics |-> metrics]>>

\* lines 799-802: metricsA[metric.Name] = metric, the last of a name wins
metricsA(ms, name) ==
    ms[CHOOSE i \in DOMAIN ms :
          /\ ms[i].Name = name
          /\ \A j \in DOMAIN ms : ms[j].Name = name => j <= i]

\* resource_application.go:784-820
applicationCapacityEqual(a, b) ==
    IF a = <<>> /\ b = <<>> THEN TRUE
    ELSE IF (a = <<>>) # (b = <<>>) THEN FALSE
    ELSE IF ~int64PtrEqual(a[1].MinimumNodes, b[1].MinimumNodes) THEN FALSE
    ELSE IF ~int64PtrEqual(a[1].MaximumNodes, b[1].MaximumNodes) THEN FALSE
    ELSE IF Len(a[1].ApplicationMetrics) # Len(b[1].ApplicationMetrics) THEN FALSE
    ELSE \A j \in DOMAIN b[1].ApplicationMetrics :
            LET metricB == b[1].ApplicationMetrics[j]
            IN  /\ \E i \in DOMAIN a[1].ApplicationMetrics :
                      a[1].ApplicationMetrics[i].Name = metricB.Name
                /\ LET metricA == metricsA(a[1].ApplicationMetrics, metricB.Name)
                   IN  /\ int64PtrEqual(metricA.MaximumCapacity,
                                        metricB.MaximumCapacity)
                       /\ int64PtrEqual(metricA.ReservationCapacity,
                                        metricB.ReservationCapacity)
                       /\ int64PtrEqual(metricA.TotalApplicationCapacity,
                                        metricB.TotalApplicationCapacity)

\* strings.TrimSpace, on the identities of the model
TrimSpace(s) ==
    CASE s = " web " -> "web"
      [] s = " " -> ""
      [] s = " p1 " -> "p1"
      [] OTHER -> s

\* resource_application.go:1008-1010, guidRegex
isGUID(v) == Fold(v) = "6f9619ff-8b86-d011-b42d-00c04fc964ff"

\* lines 635-647: one entry of IdentityRefs
identityRef(candidate) ==
    IF isGUID(candidate) THEN [Name |-> "", PrincipalID |-> candidate]
    ELSE [Name |-> candidate, PrincipalID |-> ""]

\* resource_application.go:609-655
expandManagedApplicationIdentity(value) ==
    IF value = <<>> THEN <<>>
    ELSE LET inputs == IF value[1].Identities = <<>> THEN <<>>
                       ELSE value[1].Identities[1]
             kept == SelectSeq(inputs, LAMBDA raw : TrimSpace(raw) # "")
             refs == [i \in DOMAIN kept |-> identityRef(TrimSpace(kept[i]))]
         IN  IF value[1].TokenServiceEndpoint = <<>> /\ refs = <<>>
               THEN <<>>
               ELSE <<[TokenServiceEndpoint |->
                          IF value[1].TokenServiceEndpoint = <<>> THEN ""
                          ELSE value[1].TokenServiceEndpoint[1],
                       IdentityRefs |-> refs]>>

\* resource_application.go:997-1006
identityRefsEqual(a, b) ==
    IF a.PrincipalID # "" /\ b.PrincipalID # ""
      THEN EqualFold(a.PrincipalID, b.PrincipalID)
    ELSE IF a.Name # "" /\ b.Name # "" THEN a.Name = b.Name
    ELSE EqualFold(a.PrincipalID, b.PrincipalID) /\ a.Name = b.Name

\* lines 835-851: the references of a from the i-th on find, each in turn,
\* the first unused reference of b that equals it
RECURSIVE matchRefs(_, _, _, _)
matchRefs(as, bs, i, used) ==
    IF i > Len(as) THEN TRUE
    ELSE LET free == {j \in DOMAIN bs :
                         j \notin used /\ identityRefsEqual(as[i], bs[j])}
         IN  IF free = {} THEN FALSE
             ELSE matchRefs(as, bs, i + 1,
                            used \cup {CHOOSE j \in free : \A k \in free : j <= k})

\* resource_application.go:822-853
managedApplicationIdentityEqual(a, b) ==
    IF a = <<>> /\ b = <<>> THEN TRUE
    ELSE IF (a = <<>>) # (b = <<>>) THEN FALSE
    ELSE IF a[1].TokenServiceEndpoint # b[1].TokenServiceEndpoint THEN FALSE
    ELSE IF Len(a[1].IdentityRefs) # Len(b[1].IdentityRefs) THEN FALSE
    ELSE matchRefs(a[1].IdentityRefs, b[1].IdentityRefs, 1, {})

\* lines 489-513: the upgrade, then refreshState
\* helpers.go:21-31; b[k] of a key b does not hold is the empty string
stringMapEqual(a, b) ==
    /\ Cardinality(DOMAIN a) = Cardinality(DOMAIN b)
    /\ \A k \in DOMAIN a : (IF k \in DOMAIN b THEN b[k] ELSE "") = a[k]

\* resource_application.go:458-476: the maps Update compares
stateParams(f) ==
    IF f.stateParameters = <<>> THEN <<>> ELSE f.stateParameters[1]

planParams(f) ==
    IF f.planParameters = <<>> THEN stateParams(f) ELSE f.planParameters[1]

applicationResource_Update_upgrade(f) ==
    Call([f EXCEPT !.upgradeDesc =
             Append(@, [Name |-> f.name,
                        TargetApplicationTypeVersion |-> f.version,
                        ParameterMap |-> planParams(f),
                        ForceRestart |->
                           applyUpgradePolicy(f.policyForceRestart, FALSE)])],
         "up_entry", "appupdate_upgraded")

\* resource_application.go:390-494: the checks of the plan against the state
applicationResource_Update(f) ==
    IF f.typeNameChanged
      THEN AddError(f, "Changing application type name requires replacement")
    ELSE IF ~applicationCapacityEqual(expandApplicationCapacity(f.planCapacity),
                                      expandApplicationCapacity(f.stateCapacity))
      THEN AddError(f, "Application capacity changes require recreation")
    ELSE IF ~managedApplicationIdentityEqual(
                 expandManagedApplicationIdentity(f.planIdentity),
                 expandManagedApplicationIdentity(f.stateIdentity))
      THEN AddError(f, "Managed application identity changes require recreation")
    ELSE IF f.version = f.stateVersion
              /\ stringMapEqual(planParams(f), stateParams(f))
      THEN Call(f, "ga_read", "appupdate_read")
    ELSE applicationResource_Update_upgrade(
             [f EXCEPT !.parametersChanged =
                          ~stringMapEqual(planParams(f), stateParams(f))])

\* lines 503-506: after UpgradeApplication
applicationResource_Update_upgraded(f) ==
    IF f.rv # Nil
      THEN AddError([f EXCEPT !.upgradeErrs = Append(@, f.rv)],
                    "Failed to upgrade application")
    ELSE Call([f EXCEPT !.upgradeErrs = Append(@, f.rv)],
              "ga_read", "appupdate_read")

\* lines 478-483 and 508-515: after refreshState
applicationResource_Update_read(f) ==
    IF f.rv # Nil THEN AddError(f, "Failed to read application")
    ELSE Finish([f EXCEPT !.stateSet = TRUE])

(***************************************************************************)
(* Update of the service resource (resource_service.go:327-359, 516-626).  *)
(***************************************************************************)
\* resource_service.go:727-736, on the kinds of the model
canonicalServiceKind(input) ==
    CASE input = "Stateless" -> "Stateless"
      [] input = " stateless" -> "Stateless"
      [] input = "Stateful" -> "Stateful"
      [] input = "STATEFUL" -> "Stateful"
      [] OTHER -> ""

\* resource_service.go:751-758: fmt.Sprintf("%d", sec)
secondsString(value) == IF value = <<>> THEN <<>> ELSE <<ToString(value[1])>>

\* the bit of a field that is set, in the flags
Bit(value, bit) == IF value = <<>> THEN 0 ELSE bit

\* a | b on uint32
RECURSIVE BitOr(_, _)
BitOr(a, b) ==
    IF a = 0 THEN b
    ELSE IF b = 0 THEN a
    ELSE (IF a % 2 = 1 \/ b % 2 = 1 THEN 1 ELSE 0) + 2 * BitOr(a \div 2, b \div 2)

\* flags after flags |= bit for each bit of the sequence, from 0
RECURSIVE OrAll(_)
OrAll(bits) ==
    IF bits = <<>> THEN 0 ELSE BitOr(OrAll(Tail(bits)), Head(bits))

\* resource_service.go:522-566: the description of a stateless service
statelessUpdate(plan) ==
    LET model == plan.Stateless
        of(field) == IF model = <<>> THEN <<>> ELSE model[1][field]
        flags == OrAll(<<Bit(plan.PlacementConstraints, 2),
                         Bit(plan.DefaultMoveCost, 32),
                         Bit(plan.ServiceDnsName, 2048),
                         Bit(of("InstanceCount"), 1),
                         Bit(of("MinInstanceCount"), 128),
                         Bit(of("MinInstancePercentage"), 256),
                         Bit(of("InstanceCloseDelaySeconds"), 512),
                         Bit(of("InstanceRestartWaitSeconds"), 1024)>>)
    IN  IF flags = 0 THEN [changed |-> FALSE, desc |-> <<>>]
        ELSE [changed |-> TRUE,
              desc |-> <<[ServiceKind |-> "Stateless",
                          Flags |-> ToString(flags),
                          PlacementConstraints |-> plan.PlacementConstraints,
                          DefaultMoveCost |-> plan.DefaultMoveCost,
                          ServiceDnsName |-> plan.ServiceDnsName,
                          InstanceCount |-> of("InstanceCount"),
                          MinInstanceCount |-> of("MinInstanceCount"),
                          MinInstancePercentage |-> of("MinInstancePercentage"),
                          InstanceCloseDelayDurationSeconds |->
                              secondsString(of("InstanceCloseDelaySeconds")),
                          InstanceRestartWaitDurationSeconds |->
                              secondsString(of("InstanceRestartWaitSeconds"))]>>]

\* (variant: default_move_cost shares the bit of placement_constraints)
statefulUpdate_SharedBit(plan) ==
    LET model == plan.Stateful
        of(field) == IF model = <<>> THEN <<>> ELSE model[1][field]
        flags == OrAll(<<Bit(plan.PlacementConstraints, 32),
                         Bit(plan.DefaultMoveCost, 32),
                         Bit(plan.ServiceDnsName, 8192),
                         Bit(of("TargetReplicaSetSize"), 1),
                         Bit(of("MinReplicaSetSize"), 16),
                         Bit(of("ReplicaRestartWaitSeconds"), 2),
                         Bit(of("QuorumLossWaitSeconds"), 4),
                         Bit(of("StandByReplicaKeepSeconds"), 8),
                         Bit(of("ServicePlacementTimeLimitSeconds"), 2048)>>)
    IN  IF flags = 0 THEN [changed |-> FALSE, desc |-> <<>>]
        ELSE [changed |-> TRUE,
              desc |-> <<[ServiceKind |-> "Stateful",
                          Flags |-> ToString(flags),
                          PlacementConstraints |-> plan.PlacementConstraints,
                          DefaultMoveCost |-> plan.DefaultMoveCost,
                          ServiceDnsName |-> plan.ServiceDnsName,
                          TargetReplicaSetSize |-> of("TargetReplicaSetSize"),
                          MinReplicaSetSize |-> of("MinReplicaSetSize"),
                          ReplicaRestartWaitDurationSeconds |->
                              secondsString(of("ReplicaRestartWaitSeconds")),
                          QuorumLossWaitDurationSeconds |->
                              secondsString(of("QuorumLossWaitSeconds")),
                          StandByReplicaKeepDurationSeconds |->
                              secondsString(of("StandByReplicaKeepSeconds")),
                          ServicePlacementTimeLimitSeconds |->
                              secondsString(of("ServicePlacementTimeLimitSeconds"))]>>]

\* resource_service.go:567-622: the description of a stateful service
statefulUpdate(plan) ==
    LET model == plan.Stateful
        of(field) == IF model = <<>> THEN <<>> ELSE model[1][field]
        flags == OrAll(<<Bit(plan.PlacementConstraints, 32),
                         Bit(plan.DefaultMoveCost, 512),
                         Bit(plan.ServiceDnsName, 8192),
                         Bit(of("TargetReplicaSetSize"), 1),
                         Bit(of("MinReplicaSetSize"), 16),
                         Bit(of("ReplicaRestartWaitSeconds"), 2),
                         Bit(of("QuorumLossWaitSeconds"), 4),
                         Bit(of("StandByReplicaKeepSeconds"), 8),
                         Bit(of("ServicePlacementTimeLimitSeconds"), 2048)>>)
    IN  IF flags = 0 THEN [changed |-> FALSE, desc |-> <<>>]
        ELSE [changed |-> TRUE,
              desc |-> <<[ServiceKind |-> "Stateful",
                          Flags |-> ToString(flags),
                          PlacementConstraints |-> plan.PlacementConstraints,
                          DefaultMoveCost |-> plan.DefaultMoveCost,
                          ServiceDnsName |-> plan.ServiceDnsName,
                          TargetReplicaSetSize |-> of("TargetReplicaSetSize"),
                          MinReplicaSetSize |-> of("MinReplicaSetSize"),
                          ReplicaRestartWaitDurationSeconds |->
                              secondsString(of("ReplicaRestartWaitSeconds")),
                          QuorumLossWaitDurationSeconds |->
                              secondsString(of("QuorumLossWaitSeconds")),
                          StandByReplicaKeepDurationSeconds |->
                              secondsString(of("StandByReplicaKeepSeconds")),
                          ServicePlacementTimeLimitSeconds |->
                              secondsString(of("ServicePlacementTimeLimitSeconds"))]>>]

\* resource_service.go:516-626: the description is built from the plan
buildUpdateDescription(plan) ==
    CASE canonicalServiceKind(plan.ServiceKind) = "Stateless" -> statelessUpdate(plan)
      [] canonicalServiceKind(plan.ServiceKind) = "Stateful" -> statefulUpdate(plan)
      [] OTHER -> [changed |-> FALSE, desc |-> <<>>]

\* Client.UpdateService: one POST of the description, doRequest's typed error
UpdateService(f, raw) ==
    LET r == doRequest(f.cancelled, raw)
        g == [f EXCEPT !.sent = IF r.sent THEN @ + 1 ELSE @,
                       !.posts = Append(@, [method |-> "UpdateService",
                                            err |-> r.err, status |-> raw.status,
                                            loc |-> raw.loc])]
    IN  Return(g, r.err)

\* resource_service.go:327-348: the description, then the update or the read
serviceResource_Update(f) ==
    LET b == buildUpdateDescription(f.planService[1])
        g == [f EXCEPT !.built = <<b>>]
    IN  IF b.changed THEN Call(g, "svc_update", "svcupdate_updated")
        ELSE Call(g, "svc_get", "svcupdate_read")

\* resource_service.go:342-349: after UpdateService
serviceResource_Update_updated(f) ==
    IF f.rv # Nil THEN AddError(f, "Failed to update service")
    ELSE Call(f, "svc_get", "svcupdate_read")

\* resource_service.go:350-358: after GetService
serviceResource_Update_read(f) ==
    IF f.rv # Nil /\ ~IsNotFoundError(f.rv)
      THEN AddError(f, "Failed to refresh service state")
    ELSE Finish([f EXCEPT !.stateSet = TRUE])

(***************************************************************************)
(* Create of the service resource (resource_service.go:265-303) and the    *)
(* partition of its description (628-697).                                 *)
(***************************************************************************)
\* resource_service.go:738-749, on the schemes of the model
canonicalPartitionScheme(input) ==
    CASE input = "Singleton" -> "Singleton"
      [] input = "Named" -> "Named"
      [] input = " named " -> "Named"
      [] input = "UniformInt64Range" -> "UniformInt64Range"
      [] input = "uniform_int64_range" -> "UniformInt64Range"
      [] OTHER -> ""

PartitionError(summary) == [err |-> summary, desc |-> <<>>]

PartitionDescription(scheme, count, names, low, high) ==
    [err |-> "",
     desc |-> <<[PartitionScheme |-> scheme, Count |-> count, Names |-> names,
                 LowKey |-> low, HighKey |-> high]>>]

\* (variant: the high key has to be above the low key)
expandPartitionDescription_StrictRange(model) ==
    IF model.Scheme = <<>> THEN PartitionError("Missing partition scheme")
    ELSE IF canonicalPartitionScheme(model.Scheme[1]) = ""
      THEN PartitionError("Invalid partition scheme")
    ELSE IF canonicalPartitionScheme(model.Scheme[1]) = "Singleton"
      THEN IF model.Count # <<>>
             THEN PartitionError("Invalid partition configuration")
             ELSE PartitionDescription("Singleton", <<>>, <<>>, <<>>, <<>>)
    ELSE IF canonicalPartitionScheme(model.Scheme[1]) = "Named"
      THEN LET names == IF model.Names = <<>> THEN <<>>
                        ELSE [i \in DOMAIN model.Names[1] |->
                                 TrimSpace(model.Names[1][i])]
           IN  IF Len(names) = 0
                 THEN PartitionError("Invalid partition configuration")
                 ELSE PartitionDescription(
                          "Named",
                          IF model.Count # <<>> THEN model.Count
                          ELSE <<Len(names)>>,
                          names, <<>>, <<>>)
    ELSE IF model.LowKey = <<>> \/ model.HighKey = <<>>
      THEN PartitionError("Invalid partition configuration")
    ELSE IF model.HighKey[1] <= model.LowKey[1]
      THEN PartitionError("Invalid partition configuration")
    ELSE PartitionDescription("UniformInt64Range", model.Count, <<>>,
                              model.LowKey, model.HighKey)

\* resource_service.go:628-697
expandPartitionDescription(model) ==
    IF model.Scheme = <<>> THEN PartitionError("Missing partition scheme")
    ELSE IF canonicalPartitionScheme(model.Scheme[1]) = ""
      THEN PartitionError("Invalid partition scheme")
    ELSE IF canonicalPartitionScheme(model.Scheme[1]) = "Singleton"
      THEN IF model.Count # <<>>
             THEN PartitionError("Invalid partition configuration")
             ELSE PartitionDescription("Singleton", <<>>, <<>>, <<>>, <<>>)
    ELSE IF canonicalPartitionScheme(model.Scheme[1]) = "Named"
      THEN LET names == IF model.Names = <<>> THEN <<>>
                        ELSE [i \in DOMAIN model.Names[1] |->
                                 TrimSpace(model.Names[1][i])]
           IN  IF Len(names) = 0
                 THEN PartitionError("Invalid partition configuration")
                 ELSE PartitionDescription(
                          "Named",
                          IF model.Count # <<>> THEN model.Count
                          ELSE <<Len(names)>>,
                          names, <<>>, <<>>)
    ELSE IF model.LowKey = <<>> \/ model.HighKey = <<>>
      THEN PartitionError("Invalid partition configuration")
    ELSE IF model.HighKey[1] < model.LowKey[1]
      THEN PartitionError("Invalid partition configuration")
    ELSE PartitionDescription("UniformInt64Range", model.Count, <<>>,
                              model.LowKey, model.HighKey)

\* Client.CreateService: one POST of the description, doRequest's typed error
CreateService(f, raw) ==
    LET r == doRequest(f.cancelled, raw)
        g == [f EXCEPT !.sent = IF r.sent THEN @ + 1 ELSE @,
                       !.posts = Append(@, [method |-> "CreateService",
                                            err |-> r.err, status |-> raw.status,
                                            loc |-> raw.loc])]
    IN  Return(g, r.err)

\* resource_service.go:265-281 and expandServiceDescription (402-421): the
\* partition block is required and is expanded before anything is sent
serviceResource_Create(f) ==
    IF f.planPartition = <<>>
      THEN AddError(f, "Missing partition configuration")
    ELSE LET p == expandPartitionDescription(f.planPartition[1])
             g == [f EXCEPT !.partition = <<p>>]
         IN  IF p.err # "" THEN AddError(g, p.err)
             ELSE IF canonicalServiceKind(f.planService[1].ServiceKind) = ""
               THEN AddError(g, "Invalid service kind")
             ELSE Call(g, "svc_create", "svccreate_created")

\* resource_service.go:278-281: after CreateService
serviceResource_Create_created(f) ==
    IF f.rv # Nil THEN AddError(f, "Failed to create service")
    ELSE Call(f, "svc_get", "svccreate_read")

\* resource_service.go:291-302: after GetService
serviceResource_Create_read(f) ==
    IF f.rv # Nil /\ ~IsNotFoundError(f.rv)
      THEN AddError(f, "Failed to read service after creation")
    ELSE Finish([f EXCEPT !.stateSet = TRUE])

\* the handler the framework calls for the operation of the frame
ResourceEntry(f) ==
    CASE f.op = "AppCreate" -> applicationResource_Create(f)
      [] f.op = "SvcCreate" -> serviceResource_Create(f)
      [] f.op = "SvcUpdate" -> serviceResource_Update(f)
      [] f.op = "AppUpdate" -> applicationResource_Update(f)
      [] f.op = "AppRead" -> applicationResource_Read(f)
      [] f.op = "AppDelete" -> applicationResource_Delete(f)
      [] f.op = "SvcRead" -> serviceResource_Read(f)
      [] f.op = "SvcDelete" -> serviceResource_Delete(f)
      [] f.op = "TypeRead" -> applicationTypeResource_Read(f)
      [] f.op = "TypeCreate" -> applicationTypeResource_Create(f)
      [] f.op = "TypeDelete" -> applicationTypeResource_Delete(f)

(***************************************************************************)
(* What the transport and the cluster may answer (Spec: anything).         *)
(***************************************************************************)
StatusOK == 200

StatusServerError == 500

ErrorAnswers ==
    {AuthFail, NetErr,
     Http(StatusNotFound, "FABRIC_E_APPLICATION_NOT_FOUND", NoBody),
     Http(StatusConflict, CodeUpgradeInProgress, NoBody),
     Http(StatusConflict, "FABRIC_E_APPLICATION_ALREADY_EXISTS", NoBody),
     Http(StatusServerError, "", NoBody)}

RawStart == ErrorAnswers \cup {Http(StatusOK, "", NoBody)}

UpgradeStates ==
    {upgradeStateRollingForwardDone, upgradeStateRollingBackDone,
     upgradeStateFailed, upgradeStateRollingBackProgress,
     "RollingForwardPending", "RollingForwardInProgress", "Invalid",
     "", "rollingforwardcompleted", "Paused"}

UpgradeDetails == {"", "health check failed"}

ProgressBody(ok, state, details) ==
    [ok |-> ok, empty |-> FALSE, UpgradeState |-> state,
     UpgradeStatusDetails |-> details]

RawProgress ==
    {[a EXCEPT !.body = ProgressBody(FALSE, "", "")] : a \in ErrorAnswers}
    \cup {Http(StatusOK, "", ProgressBody(FALSE, "", ""))}
    \cup {Http(StatusOK, "", ProgressBody(TRUE, s, d)) :
            s \in UpgradeStates, d \in UpgradeDetails}

PollStatusValues == {"", "Succeeded", "InProgress"}

PollStateValues == {"", "COMPLETE", "Faulted"}

PollErrors ==
    {[isNil |-> TRUE, Message |-> ""], [isNil |-> FALSE, Message |-> "disk full"]}

\* Retry-After headers: absent, integers, and values that are no integer
RetryAfterHeaders ==
    {<<>>, <<"2">>, <<"7">>, <<"0">>, <<"x">>, <<"1", ".", "5">>, <<"5", "m">>}

PollBody(ok, readErr, status, state, error) ==
    [ok |-> ok, readErr |-> readErr, Status |-> status, StateF |-> state,
     Error |-> error]

RawPoll ==
    {[a EXCEPT !.body = NoPoll.o] :
        a \in {AuthFail, NetErr, Http(StatusNotFound, "", NoBody),
               Http(StatusServerError, "", NoBody)}}
    \cup {Http(StatusOK, "", PollBody(FALSE, FALSE, "", "", NoPoll.o.Error)),
          Http(StatusOK, "", PollBody(TRUE, TRUE, "", "", NoPoll.o.Error))}
    \cup {Raw("http", StatusOK, "", "", h, PollBody(TRUE, FALSE, st, sf, e)) :
            h \in RetryAfterHeaders, st \in PollStatusValues,
            sf \in PollStateValues, e \in PollErrors}

Locations == {"", "/ops/1", "%zz"}

AppBody(ok, empty, readErr) == [ok |-> ok, empty |-> empty, readErr |-> readErr]

RawRead ==
    ErrorAnswers
    \cup {Raw("http", StatusAccepted, "", l, <<>>, NoBody) : l \in Locations}
    \cup {Http(StatusNoContent, "", NoBody)}
    \cup {Http(StatusOK, "", AppBody(TRUE, FALSE, FALSE)),
          Http(StatusOK, "", AppBody(TRUE, TRUE, FALSE)),
          Http(StatusOK, "", AppBody(FALSE, FALSE, FALSE)),
          Http(StatusOK, "", AppBody(TRUE, FALSE, TRUE))}

AppNames == {"", "fabric:/app"}

\* the calls of Spec: the method, the application name, the Location
Calls ==
    {NewFrame("Upgrade", n, "") : n \in AppNames}
    \cup {NewFrame("Poll", "", l) : l \in Locations}
    \cup {NewFrame("GetApp", "fabric:/app", "")}

\* The cluster as far as a start request sees it: the state of the
\* application's latest upgrade, the caller whose start began it, the
\* progress polls answered while it ran, and the starts admitted per caller.
Callers == {1, 2}

IdleCluster ==
    [state |-> upgradeStateRollingForwardDone, owner |-> 0, polled |-> 0,
     admitted |-> [c \in Callers |-> 0], failed |-> {}]

\* the caller's CancelFunc, or the context's deadline: ctx.Done() is closed,
\* and a goroutine parked in a select wakes by that case
cancel(f) ==
    IF f.wake = "parked"
      THEN [f EXCEPT !.cancelled = TRUE, !.wake = "ctx",
                     !.cancelledInWait = TRUE, !.cancelSite = f.pc,
                     !.sentAtCancel = f.sent]
      ELSE [f EXCEPT !.cancelled = TRUE]

\* the timer of the select fires while the goroutine is parked
timerFires(f) == [f EXCEPT !.wake = "timer"]

(***************************************************************************)
(* The client (errors.go:50-91).  A URL is a record of what the client     *)
(* looks at: whether it is absolute, its path as a sequence of pieces ("/" *)
(* and one piece for each run of other characters) and the values of       *)
(* api-version in its query, in their order.                               *)
(***************************************************************************)
defaultAPIVersion == "6.0"

URL(abs, path, query) == [Abs |-> abs, Path |-> path, Query |-> query]

\* (variant: an empty APIVersion is left empty)
NewClient_NoDefault(cfg) ==
    [endpoint |-> cfg.Endpoint,
     apiVersion |-> cfg.APIVersion,
     httpClient |-> IF cfg.HTTPClient = "" THEN "http.Client{Timeout: 60s}"
                    ELSE cfg.HTTPClient,
     auth |-> cfg.Authenticator]

\* errors.go:67-91, for a configuration whose Endpoint parses; Authenticator
\* and HTTPClient are "" when nil
NewClient(cfg) ==
    [endpoint |-> cfg.Endpoint,
     apiVersion |-> IF cfg.APIVersion = "" THEN defaultAPIVersion
                    ELSE cfg.APIVersion,
     httpClient |-> IF cfg.HTTPClient = "" THEN "http.Client{Timeout: 60s}"
                    ELSE cfg.HTTPClient,
     auth |-> cfg.Authenticator]

ClientConfig(endpoint, apiVersion, httpClient, authenticator) ==
    [Endpoint |-> endpoint, APIVersion |-> apiVersion,
     HTTPClient |-> httpClient, Authenticator |-> authenticator]

\* the client of the specifications that do not look at URLs
DefaultClient ==
    NewClient(ClientConfig(URL(TRUE, <<>>, <<>>), "", "", "token"))

(***************************************************************************)
(* Spec: one call against a cluster that may answer anything.              *)
(***************************************************************************)
Caller == 1

Init ==
    /\ \E f \in Calls : call = [c \in {Caller} |-> f]
    /\ budget = MaxRequests
    /\ cluster = IdleCluster
    /\ client = DefaultClient

Step(c, f) ==
    /\ call' = [call EXCEPT ![c] = f]
    /\ UNCHANGED <<budget, cluster, client>>

Request(c, f) ==
    /\ budget > 0
    /\ call' = [call EXCEPT ![c] = f]
    /\ budget' = budget - 1
    /\ UNCHANGED <<cluster, client>>

UpgradeEnter(c) ==
    /\ call[c].pc = "up_entry"
    /\ Step(c, UpgradeApplication_entry(call[c]))

UpgradeStart(c) ==
    /\ call[c].pc = "up_start"
    /\ \E raw \in RawStart : Request(c, UpgradeApplication_start(call[c], raw))

UpgradeWaitFailed(c) ==
    /\ call[c].pc = "up_retry"
    /\ call[c].rv # Nil
    /\ Step(c, UpgradeApplication_retry(call[c], NetErr))

UpgradeRetry(c) ==
    /\ call[c].pc = "up_retry"
    /\ call[c].rv = Nil
    /\ \E raw \in RawStart : Request(c, UpgradeApplication_retry(call[c], raw))

UpgradeFinal(c) ==
    /\ call[c].pc = "up_final"
    /\ Step(c, UpgradeApplication_final(call[c]))

ProgressPoll(c) ==
    /\ call[c].pc = "w_poll"
    /\ \E raw \in RawProgress, late \in BOOLEAN :
          Request(c, waitForApplicationUpgrade_poll(call[c], raw, late))

WaitSelect(c) ==
    /\ call[c].pc = "w_select"
    /\ call[c].wake # "parked"
    /\ \E w \in SelectReady(call[c].cancelled, call[c].tick) :
          Step(c, waitForApplicationUpgrade_select(call[c], w))

PollEnter(c) ==
    /\ call[c].pc = "p_entry"
    /\ Step(c, pollOperation_entry(call[c]))

Poll(c) ==
    /\ call[c].pc = "p_req"
    /\ \E raw \in RawPoll : Request(c, pollOperation_poll(call[c], raw))

PollSelect(c) ==
    /\ call[c].pc = "p_select"
    /\ call[c].wake # "parked"
    /\ \E w \in SelectReady(call[c].cancelled, FALSE) :
          Step(c, pollOperation_select(call[c], w))

GetRead(c) ==
    /\ call[c].pc = "ga_read"
    /\ \E raw \in RawRead : Request(c, GetApplication_read(call[c], raw))

GetPolled(c) ==
    /\ call[c].pc = "ga_polled"
    /\ Step(c, GetApplication_polled(call[c]))

GetBackoffSelect(c) ==
    /\ call[c].pc = "ga_backoff"
    /\ call[c].wake # "parked"
    /\ \E w \in SelectReady(call[c].cancelled, FALSE) :
          Step(c, GetApplication_backoff(call[c], w))

Cancel(c) ==
    /\ call[c].pc # "done"
    /\ ~call[c].cancelled
    /\ Step(c, cancel(call[c]))

TimerFires(c) ==
    /\ call[c].wake = "parked"
    /\ Step(c, timerFires(call[c]))

Next ==
    \/ UpgradeEnter(Caller)
    \/ UpgradeStart(Caller)
    \/ UpgradeWaitFailed(Caller)
    \/ UpgradeRetry(Caller)
    \/ UpgradeFinal(Caller)
    \/ ProgressPoll(Caller)
    \/ WaitSelect(Caller)
    \/ PollEnter(Caller)
    \/ Poll(Caller)
    \/ PollSelect(Caller)
    \/ GetRead(Caller)
    \/ GetPolled(Caller)
    \/ GetBackoffSelect(Caller)
    \/ Cancel(Caller)
    \/ TimerFires(Caller)

Spec == Init /\ [][Next]_vars

(***************************************************************************)
(* SpecConc: two goroutines call UpgradeApplication for the same           *)
(* application.  The cluster admits one upgrade at a time, answers a start *)
(* request made during an upgrade with the upgrade-in-progress conflict,   *)
(* and rolls every admitted upgrade forward to completion.  Contexts are   *)
(* not cancelled and requests do not fail in transport.                    *)
(***************************************************************************)
\* progress polls the cluster answers with a state in progress before the
\* upgrade moves on (an upgrade takes a bounded number of ticker periods)
MaxPollsPerUpgrade == 2

ClusterUpgrading(cl) ==
    cl.state \in {"RollingForwardPending", "RollingForwardInProgress"}

ClusterStartAnswer(cl) ==
    IF ClusterUpgrading(cl)
      THEN Http(StatusConflict, CodeUpgradeInProgress, NoBody)
      ELSE Http(StatusOK, "", NoBody)

ClusterAdmit(cl, c) ==
    IF ClusterUpgrading(cl) THEN cl
    ELSE [cl EXCEPT !.state = "RollingForwardPending", !.owner = c,
                    !.polled = 0, !.admitted[c] = @ + 1]

ClusterProgressAnswer(cl) ==
    Http(StatusOK, "", ProgressBody(TRUE, cl.state, ""))

ClusterPolled(cl) ==
    IF ClusterUpgrading(cl) THEN [cl EXCEPT !.polled = @ + 1] ELSE cl

ClusterAdvanced(cl) ==
    [cl EXCEPT !.state = IF @ = "RollingForwardPending"
                           THEN "RollingForwardInProgress"
                           ELSE upgradeStateRollingForwardDone]

InitConc ==
    /\ call = [c \in Callers |-> NewFrame("Upgrade", "fabric:/app", "")]
    /\ budget = MaxRequests
    /\ cluster = IdleCluster
    /\ client = DefaultClient

ConcStart(c) ==
    /\ call[c].pc = "up_start"
    /\ call' = [call EXCEPT ![c] = UpgradeApplication_start(
                                      call[c], ClusterStartAnswer(cluster))]
    /\ cluster' = ClusterAdmit(cluster, c)
    /\ UNCHANGED <<budget, client>>

ConcRetry(c) ==
    /\ call[c].pc = "up_retry"
    /\ call' = [call EXCEPT ![c] = UpgradeApplication_retry(
                                      call[c], ClusterStartAnswer(cluster))]
    /\ cluster' = IF call[c].rv = Nil THEN ClusterAdmit(cluster, c) ELSE cluster
    /\ UNCHANGED <<budget, client>>

ConcProgress(c) ==
    /\ call[c].pc = "w_poll"
    /\ ClusterUpgrading(cluster) => cluster.polled < MaxPollsPerUpgrade
    /\ \E late \in BOOLEAN :
          call' = [call EXCEPT ![c] = waitForApplicationUpgrade_poll(
                                         call[c], ClusterProgressAnswer(cluster),
                                         late)]
    /\ cluster' = ClusterPolled(cluster)
    /\ UNCHANGED <<budget, client>>

ClusterAdvance ==
    /\ ClusterUpgrading(cluster)
    /\ cluster' = ClusterAdvanced(cluster)
    /\ UNCHANGED <<call, budget, client>>

CallerStep(c) ==
    \/ UpgradeEnter(c)
    \/ ConcStart(c)
    \/ ConcRetry(c)
    \/ UpgradeFinal(c)
    \/ ConcProgress(c)
    \/ WaitSelect(c)
    \/ TimerFires(c)

NextConc ==
    \/ \E c \in Callers : CallerStep(c)
    \/ ClusterAdvance

SpecConc == InitConc /\ [][NextConc]_vars

\* Every goroutine that can run does run, and the cluster keeps working on
\* the upgrade it admitted.
SpecConcFair ==
    /\ SpecConc
    /\ \A c \in Callers : WF_vars(CallerStep(c))
    /\ WF_vars(ClusterAdvance)

(***************************************************************************)
(* SpecRival: the two calls of SpecConc against a cluster in which an      *)
(* admitted upgrade may also fail or roll back.  cluster.failed keeps the  *)
(* callers whose own upgrade ended so.                                     *)
(***************************************************************************)
ClusterFailed(cl, state) ==
    [cl EXCEPT !.state = state, !.failed = @ \cup {cl.owner}]

ClusterFail ==
    /\ ClusterUpgrading(cluster)
    /\ \E state \in {upgradeStateRollingBackDone, upgradeStateFailed} :
          cluster' = ClusterFailed(cluster, state)
    /\ UNCHANGED <<call, budget, client>>

NextRival ==
    \/ \E c \in Callers : CallerStep(c)
    \/ ClusterAdvance
    \/ ClusterFail

SpecRival == InitConc /\ [][NextRival]_vars

(***************************************************************************)
(* SpecWait: one call of pollOperation, or of waitForApplicationUpgrade    *)
(* after an accepted start, against a cluster that answers every request   *)
(* with a state in progress or an unknown one while its operation runs     *)
(* (ClusterUpgrading) and with anything else once it has ended.  Neither   *)
(* loop has a counter, so nothing stops the requests; the counters of the  *)
(* call's history stop counting at HistoryCap.                             *)
(***************************************************************************)
HistoryCap == 2

Capped(n) == IF n > HistoryCap THEN HistoryCap ELSE n

CapHistory(f) ==
    [f EXCEPT !.sent = Capped(@), !.polls = Capped(@),
              !.pollsInWait = Capped(@), !.pollReqs = Capped(@)]

\* the states after which the loops return
ReturningOperationStates ==
    {"succeeded", "success", "completed", "complete", "failed", "faulted"}

ReturningUpgradeStates ==
    {upgradeStateRollingForwardDone, "", upgradeStateRollingBackDone,
     upgradeStateFailed}

\* a response with a decoded status whose state is not terminal
TransitionalPolls ==
    {raw \in RawPoll :
        /\ raw.kind = "http"
        /\ raw.status < ErrorStatusFloor
        /\ raw.body.ok
        /\ ~raw.body.readErr
        /\ ToLower(State(raw.body)) \notin ReturningOperationStates}

TransitionalProgress ==
    {raw \in RawProgress :
        /\ raw.kind = "http"
        /\ raw.status < ErrorStatusFloor
        /\ raw.body.ok
        /\ raw.body.UpgradeState \notin ReturningUpgradeStates}

PollAnswers(cl) ==
    IF ClusterUpgrading(cl) THEN TransitionalPolls
    ELSE RawPoll \ TransitionalPolls

ProgressAnswers(cl) ==
    IF ClusterUpgrading(cl) THEN TransitionalProgress
    ELSE RawProgress \ TransitionalProgress

WaitCalls ==
    {NewFrame("Poll", "", "/ops/1"),
     UpgradeApplication_start(
         UpgradeApplication_entry(NewFrame("Upgrade", "fabric:/app", "")),
         Http(StatusOK, "", NoBody))}

InitWait ==
    /\ \E f \in WaitCalls : call = [c \in {Caller} |-> f]
    /\ budget = MaxRequests
    /\ cluster = [IdleCluster EXCEPT !.state = "RollingForwardPending"]
    /\ client = DefaultClient

WaitPoll(c) ==
    /\ call[c].pc = "p_req"
    /\ \E raw \in PollAnswers(cluster) :
          Step(c, CapHistory(pollOperation_poll(call[c], raw)))

WaitProgress(c) ==
    /\ call[c].pc = "w_poll"
    /\ \E raw \in ProgressAnswers(cluster), late \in BOOLEAN :
          Step(c, CapHistory(waitForApplicationUpgrade_poll(call[c], raw, late)))

\* the steps of the goroutine and of its timers
GoroutineStep(c) ==
    \/ PollEnter(c)
    \/ WaitPoll(c)
    \/ PollSelect(c)
    \/ WaitProgress(c)
    \/ WaitSelect(c)
    \/ UpgradeFinal(c)
    \/ TimerFires(c)

NextWait ==
    \/ GoroutineStep(Caller)
    \/ Cancel(Caller)
    \/ ClusterAdvance

SpecWait == InitWait /\ [][NextWait]_vars

\* The goroutine runs whenever it can and its timers fire; nothing makes the
\* cluster's operation end or the caller cancel.
SpecWaitFair == SpecWait /\ WF_vars(GoroutineStep(Caller))

(***************************************************************************)
(* SpecLife: one call of a lifecycle method of the client, or of a handler *)
(* of the resource layer, against a cluster that may answer anything.      *)
(***************************************************************************)
\* answers to a mutating POST
RawPost ==
    ErrorAnswers
    \cup {Http(StatusConflict, CodeTypeInUse, NoBody)}
    \cup {Http(StatusOK, "", NoBody), Http(201, "", NoBody)}
    \cup {Raw("http", StatusAccepted, "", l, <<>>, NoBody) : l \in Locations}

TypeItem(name, version, typeName, typeVersion, status) ==
    [Name |-> name, Version |-> version, ApplicationTypeName |-> typeName,
     ApplicationTypeVersion |-> typeVersion, Status |-> status]

TypeItems ==
    {TypeItem("", "", "Contoso.App", "1.0.0", "Available"),
     TypeItem("CONTOSO.APP", "1.0.0-RC", "", "", "Provisioning"),
     TypeItem("", "", "Contoso.App", "2.0.0", "Available"),
     TypeItem("", "", "Other", "1.0.0", "Available"),
     TypeItem("Contoso.App", "1.0.0", "Other", "2.0.0", "Failed")}

ListBody(ok, items) == [ok |-> ok, empty |-> FALSE, readErr |-> FALSE, Items |-> items]

\* answers to the GET of /ApplicationTypes: lists of up to two items
RawList ==
    {[a EXCEPT !.body = ListBody(FALSE, <<>>)] : a \in ErrorAnswers}
    \cup {Http(StatusOK, "", ListBody(FALSE, <<>>)),
          Http(StatusOK, "", ListBody(TRUE, <<>>))}
    \cup {Http(StatusOK, "", ListBody(TRUE, <<a>>)) : a \in TypeItems}
    \cup {Http(StatusOK, "", ListBody(TRUE, <<a, b>>)) : a, b \in TypeItems}

\* answers to the GET of a service
RawService ==
    ErrorAnswers
    \cup {Http(StatusOK, "", AppBody(TRUE, FALSE, FALSE)),
          Http(StatusOK, "", AppBody(FALSE, FALSE, FALSE))}

\* answers to a poll of a Location and to a progress poll, one of each kind
LifeRawPoll ==
    {[a EXCEPT !.body = NoPoll.o] :
        a \in {NetErr, Http(StatusNotFound, "", NoBody)}}
    \cup {Http(StatusOK, "", PollBody(TRUE, FALSE, "Succeeded", "", NoPoll.o.Error)),
          Http(StatusOK, "", PollBody(TRUE, FALSE, "", "", NoPoll.o.Error)),
          Http(StatusOK, "", PollBody(TRUE, FALSE, "InProgress", "Faulted",
                                     NoPoll.o.Error)),
          Http(StatusOK, "", PollBody(TRUE, FALSE, "", "Faulted",
                                     [isNil |-> FALSE, Message |-> "disk full"]))}

LifeRawProgress ==
    {[a EXCEPT !.body = ProgressBody(FALSE, "", "")] :
        a \in {NetErr, Http(StatusNotFound, "", NoBody)}}
    \cup {Http(StatusOK, "", ProgressBody(TRUE, s, "")) :
            s \in {upgradeStateRollingForwardDone, upgradeStateFailed,
                   "RollingForwardInProgress", ""}}

TypeNames == {"Contoso.App", "contoso.app"}

TypeVersions == {"1.0.0", "1.0.0-rc"}

ForceRestartSettings == {"", "true", "false"}

\* the calls of SpecLife
LifeCalls ==
    {[NewFrame(op, "Contoso.App", "") EXCEPT !.version = "1.0.0"] :
        op \in {"Provision", "Unprovision"}}
    \cup {NewFrame(op, n, "") : op \in {"CreateApp", "Upgrade"}, n \in AppNames}
    \cup {NewFrame("Poll", "", l) : l \in Locations}
    \cup {NewFrame(op, "fabric:/app", "") :
            op \in {"DeleteApp", "GetApp", "AppRead", "AppDelete",
                    "SvcRead", "SvcDelete"}}
    \cup {[NewFrame(op, n, "") EXCEPT !.version = v] :
            op \in {"GetTypeVersion", "TypeRead", "TypeCreate"}, n \in TypeNames,
            v \in TypeVersions}
    \cup {[NewFrame("TypeDelete", "Contoso.App", "") EXCEPT
                !.version = "1.0.0", !.retainVersions = r] :
            r \in ForceRestartSettings}
    \cup {[NewFrame("AppCreate", "fabric:/app", "") EXCEPT
                !.version = "2.0.0", !.recreateOnUpgrade = b,
                !.policyForceRestart = p] :
            b \in BOOLEAN, p \in ForceRestartSettings}

InitLife ==
    /\ \E f \in LifeCalls : call = [c \in {Caller} |-> f]
    /\ budget = MaxRequests
    /\ cluster = IdleCluster
    /\ client = DefaultClient

ResourceEnter(c) ==
    /\ call[c].pc = "res_entry"
    /\ Step(c, ResourceEntry(call[c]))

Provision(c) ==
    /\ call[c].pc = "prov_post"
    /\ \E raw \in RawPost : Request(c, ProvisionApplicationType(call[c], raw))

Unprovision(c) ==
    /\ call[c].pc = "unprov_post"
    /\ \E raw \in RawPost : Request(c, UnprovisionApplicationType(call[c], raw))

CreateEnter(c) ==
    /\ call[c].pc = "create_entry"
    /\ Step(c, CreateApplication_entry(call[c]))

Create(c) ==
    /\ call[c].pc = "create_post"
    /\ \E raw \in RawPost : Request(c, CreateApplication(call[c], raw))

Delete(c) ==
    /\ call[c].pc = "delete_post"
    /\ \E raw \in RawPost : Request(c, DeleteApplication(call[c], raw))

LifePoll(c) ==
    /\ call[c].pc = "p_req"
    /\ \E raw \in LifeRawPoll : Request(c, pollOperation_poll(call[c], raw))

LifeProgressPoll(c) ==
    /\ call[c].pc = "w_poll"
    /\ \E raw \in LifeRawProgress, late \in BOOLEAN :
          Request(c, waitForApplicationUpgrade_poll(call[c], raw, late))

PostPolled(c) ==
    /\ call[c].pc = "post_polled"
    /\ Step(c, postPolled(call[c]))

ListTypes(c) ==
    /\ call[c].pc = "gtv_list"
    /\ \E raw \in RawList : Request(c, GetApplicationTypeVersion(call[c], raw))

ServiceGet(c) ==
    /\ call[c].pc = "svc_get"
    /\ \E raw \in RawService : Request(c, GetService(call[c], raw))

ServiceDelete(c) ==
    /\ call[c].pc = "svc_delete"
    /\ \E raw \in RawStart : Request(c, DeleteService(call[c], raw))

AppCreateCreated(c) ==
    /\ call[c].pc = "appcreate_created"
    /\ Step(c, applicationResource_Create_created(call[c]))

AppCreateUpgraded(c) ==
    /\ call[c].pc = "appcreate_upgraded"
    /\ Step(c, applicationResource_Create_upgraded(call[c]))

AppCreateRead(c) ==
    /\ call[c].pc = "appcreate_read"
    /\ Step(c, applicationResource_Create_read(call[c]))

AppReadReturn(c) ==
    /\ call[c].pc = "appread_ret"
    /\ Step(c, applicationResource_Read_ret(call[c]))

AppDeleteReturn(c) ==
    /\ call[c].pc = "appdelete_ret"
    /\ Step(c, applicationResource_Delete_ret(call[c]))

ServiceReadReturn(c) ==
    /\ call[c].pc = "svcread_ret"
    /\ Step(c, serviceResource_Read_ret(call[c]))

ServiceDeleteReturn(c) ==
    /\ call[c].pc = "svcdelete_ret"
    /\ Step(c, serviceResource_Delete_ret(call[c]))

TypeReadReturn(c) ==
    /\ call[c].pc = "typeread_ret"
    /\ Step(c, applicationTypeResource_Read_ret(call[c]))

TypeCreateProvisioned(c) ==
    /\ call[c].pc = "typecreate_provisioned"
    /\ Step(c, applicationTypeResource_Create_provisioned(call[c]))

TypeCreateRead(c) ==
    /\ call[c].pc = "typecreate_read"
    /\ Step(c, applicationTypeResource_Create_read(call[c]))

TypeDeleteReturn(c) ==
    /\ call[c].pc = "typedelete_ret"
    /\ Step(c, applicationTypeResource_Delete_ret(call[c]))

NextLife ==
    \/ UpgradeEnter(Caller)
    \/ UpgradeStart(Caller)
    \/ UpgradeWaitFailed(Caller)
    \/ UpgradeRetry(Caller)
    \/ UpgradeFinal(Caller)
    \/ LifeProgressPoll(Caller)
    \/ WaitSelect(Caller)
    \/ PollEnter(Caller)
    \/ LifePoll(Caller)
    \/ PollSelect(Caller)
    \/ GetRead(Caller)
    \/ GetPolled(Caller)
    \/ GetBackoffSelect(Caller)
    \/ Cancel(Caller)
    \/ TimerFires(Caller)
    \/ ResourceEnter(Caller)
    \/ Provision(Caller)
    \/ Unprovision(Caller)
    \/ CreateEnter(Caller)
    \/ Create(Caller)
    \/ Delete(Caller)
    \/ PostPolled(Caller)
    \/ ListTypes(Caller)
    \/ ServiceGet(Caller)
    \/ ServiceDelete(Caller)
    \/ AppCreateCreated(Caller)
    \/ AppCreateUpgraded(Caller)
    \/ AppCreateRead(Caller)
    \/ AppReadReturn(Caller)
    \/ AppDeleteReturn(Caller)
    \/ ServiceReadReturn(Caller)
    \/ ServiceDeleteReturn(Caller)
    \/ TypeReadReturn(Caller)
    \/ TypeCreateProvisioned(Caller)
    \/ TypeCreateRead(Caller)
    \/ TypeDeleteReturn(Caller)

SpecLife == InitLife /\ [][NextLife]_vars

(***************************************************************************)
(* SpecUpd: one Update of the application resource, for plans and states   *)
(* that differ in application_capacity or in managed_application_identity, *)
(* against a cluster that may answer anything to what Update then sends.   *)
(***************************************************************************)
UpdateRequests == 3

SeqsUpTo2(S) == {<<>>} \cup {<<a>> : a \in S} \cup {<<a, b>> : a, b \in S}

Metric(name, max) ==
    [Name |-> name, MaximumCapacity |-> max, ReservationCapacity |-> <<>>,
     TotalApplicationCapacity |-> <<>>]

MetricValues ==
    {Metric("cpu", <<1>>), Metric("cpu", <<2>>), Metric("mem", <<1>>),
     Metric("", <<1>>)}

\* values of application_capacity: null, or an object
CapacityValues ==
    {<<>>} \cup
    {<<[MinimumNodes |-> m, MaximumNodes |-> <<>>, ApplicationMetrics |-> ms]>> :
        m \in {<<>>, <<1>>}, ms \in SeqsUpTo2(MetricValues)}

IdentityInputs ==
    {"web", " web ", " ", "6F9619FF-8B86-D011-B42D-00C04FC964FF",
     "6f9619ff-8b86-d011-b42d-00c04fc964ff"}

\* values of managed_application_identity: null, or an object
IdentityValues ==
    {<<>>} \cup
    {<<[TokenServiceEndpoint |-> e, Identities |-> ids]>> :
        e \in {<<>>, <<"https://tokens">>},
        ids \in {<<>>} \cup {<<l>> : l \in SeqsUpTo2(IdentityInputs)}}

UpdateFrame(tn, sv, pc, sc, pi, si) ==
    [NewFrame("AppUpdate", "fabric:/app", "") EXCEPT
        !.version = "2.0.0", !.stateVersion = sv, !.typeNameChanged = tn,
        !.planCapacity = pc, !.stateCapacity = sc,
        !.planIdentity = pi, !.stateIdentity = si]

\* capacities that hold nothing but metrics named cpu
CpuCapacities ==
    {c \in CapacityValues :
        /\ c # <<>>
        /\ c[1].MinimumNodes = <<>>
        /\ \A i \in DOMAIN c[1].ApplicationMetrics :
              c[1].ApplicationMetrics[i].Name = "cpu"}

\* the calls of SpecUpd: plan and state differ in one of the two attributes;
\* the type version is that of the state but for the last few
\* values of the parameters attribute: null, or a map
ParameterValues ==
    {<<>>, <<<<>>>>,
     <<[k \in {"env"} |-> ""]>>, <<[k \in {"zone"} |-> ""]>>,
     <<[k \in {"env"} |-> "1"]>>, <<[k \in {"env", "zone"} |-> ""]>>}

InitUpd ==
    /\ \/ \E pc \in CapacityValues, sc \in CapacityValues :
             call = [c \in {Caller} |->
                        UpdateFrame(FALSE, "2.0.0", pc, sc, <<>>, <<>>)]
       \/ \E pi \in IdentityValues, si \in IdentityValues :
             call = [c \in {Caller} |->
                        UpdateFrame(FALSE, "2.0.0", <<>>, <<>>, pi, si)]
       \/ \E pc \in CapacityValues :
             call = [c \in {Caller} |->
                        UpdateFrame(TRUE, "2.0.0", pc, <<>>, <<>>, <<>>)]
       \/ \E pc \in CpuCapacities, sc \in CpuCapacities :
             call = [c \in {Caller} |->
                        UpdateFrame(FALSE, "1.0.0", pc, sc, <<>>, <<>>)]
       \/ \E pp \in ParameterValues, sp \in ParameterValues :
             call = [c \in {Caller} |->
                        [UpdateFrame(FALSE, "2.0.0", <<>>, <<>>, <<>>, <<>>)
                           EXCEPT !.planParameters = pp,
                                  !.stateParameters = sp]]
    /\ budget = UpdateRequests
    /\ cluster = IdleCluster
    /\ client = DefaultClient

AppUpdateUpgraded(c) ==
    /\ call[c].pc = "appupdate_upgraded"
    /\ Step(c, applicationResource_Update_upgraded(call[c]))

AppUpdateRead(c) ==
    /\ call[c].pc = "appupdate_read"
    /\ Step(c, applicationResource_Update_read(call[c]))

NextUpd ==
    \/ ResourceEnter(Caller)
    \/ UpgradeEnter(Caller)
    \/ UpgradeStart(Caller)
    \/ UpgradeWaitFailed(Caller)
    \/ UpgradeRetry(Caller)
    \/ UpgradeFinal(Caller)
    \/ LifeProgressPoll(Caller)
    \/ WaitSelect(Caller)
    \/ PollEnter(Caller)
    \/ LifePoll(Caller)
    \/ PollSelect(Caller)
    \/ GetRead(Caller)
    \/ GetPolled(Caller)
    \/ GetBackoffSelect(Caller)
    \/ Cancel(Caller)
    \/ TimerFires(Caller)
    \/ AppUpdateUpgraded(Caller)
    \/ AppUpdateRead(Caller)

SpecUpd == InitUpd /\ [][NextUpd]_vars

(***************************************************************************)
(* SpecSvc: one Update of the service resource, for a plan and a state of  *)
(* a stateless or a stateful service.                                      *)
(***************************************************************************)
StatelessBlock(count) ==
    [InstanceCount |-> count, MinInstanceCount |-> <<>>,
     MinInstancePercentage |-> <<>>, InstanceCloseDelaySeconds |-> <<>>,
     InstanceRestartWaitSeconds |-> <<>>]

StatefulBlock(size) ==
    [TargetReplicaSetSize |-> size, MinReplicaSetSize |-> <<>>,
     ReplicaRestartWaitSeconds |-> <<>>, QuorumLossWaitSeconds |-> <<>>,
     StandByReplicaKeepSeconds |-> <<>>,
     ServicePlacementTimeLimitSeconds |-> <<>>]

ServiceKinds == {"Stateless", "STATEFUL", "Actor"}

\* the part of a serviceResourceModel that an update can carry
ServiceModels(kind) ==
    {[ServiceKind |-> kind, PlacementConstraints |-> pc, DefaultMoveCost |-> mc,
      ServiceDnsName |-> dns,
      Stateless |-> IF kind = "Stateless" THEN blk ELSE <<>>,
      Stateful |-> IF kind = "STATEFUL" THEN blk ELSE <<>>] :
        pc \in {<<>>, <<"NodeType == fe">>},
        mc \in {<<>>, <<"Low">>, <<"High">>},
        dns \in {<<>>, <<"web.app">>},
        blk \in {<<>>} \cup
                {<<IF kind = "Stateless" THEN StatelessBlock(n)
                   ELSE StatefulBlock(n)>> : n \in {<<>>, <<3>>, <<5>>}}}

\* plans with any set of the updatable attributes of the kind
StatelessFields ==
    {"InstanceCount", "MinInstanceCount", "MinInstancePercentage",
     "InstanceCloseDelaySeconds", "InstanceRestartWaitSeconds"}

StatefulFields ==
    {"TargetReplicaSetSize", "MinReplicaSetSize", "ReplicaRestartWaitSeconds",
     "QuorumLossWaitSeconds", "StandByReplicaKeepSeconds",
     "ServicePlacementTimeLimitSeconds"}

FullServiceModels(kind) ==
    {[ServiceKind |-> kind, PlacementConstraints |-> pc, DefaultMoveCost |-> mc,
      ServiceDnsName |-> dns,
      Stateless |-> IF kind = "Stateless" THEN <<blk>> ELSE <<>>,
      Stateful |-> IF kind = "Stateless" THEN <<>> ELSE <<blk>>] :
        pc \in {<<>>, <<"">>},
        mc \in {<<>>, <<"Low">>},
        dns \in {<<>>, <<"web.app">>},
        blk \in [IF kind = "Stateless" THEN StatelessFields ELSE StatefulFields
                   -> {<<>>, <<0>>}]}

\* the calls of SpecSvc: the plan and the state agree on service_dns_name
SvcUpdateFrame(plan, state) ==
    [NewFrame("SvcUpdate", "fabric:/app/web", "") EXCEPT
        !.planService = <<plan>>, !.stateService = <<state>>]

\* values of the partition block of a plan
PartitionModels ==
    {[Scheme |-> sc, Count |-> n, Names |-> ns, LowKey |-> lo, HighKey |-> hi] :
        sc \in {<<>>, <<"Singleton">>, <<"Named">>, <<" named ">>,
                <<"UniformInt64Range">>, <<"uniform_int64_range">>, <<"Hash">>},
        n \in {<<>>, <<4>>},
        ns \in {<<>>, <<<<>>>>, <<<<" ">>>>, <<<<"p0">>>>, <<<<"p0", " p1 ">>>>},
        lo \in {<<>>, <<0>>, <<7>>},
        hi \in {<<>>, <<0>>, <<7>>}}

\* a Create call of SpecSvc: a plan of the kind without optional attributes
SvcCreateFrame(kind, partition) ==
    [NewFrame("SvcCreate", "fabric:/app/web", "") EXCEPT
         !.planService = <<CHOOSE m \in ServiceModels(kind) :
                              /\ m.PlacementConstraints = <<>>
                              /\ m.DefaultMoveCost = <<>>
                              /\ m.ServiceDnsName = <<>>
                              /\ m.Stateless = <<>> /\ m.Stateful = <<>>>>,
         !.planPartition = partition]

InitSvc ==
    /\ \/ \E k \in ServiceKinds :
             \E plan \in ServiceModels(k), state \in ServiceModels(k) :
                /\ plan.ServiceDnsName = state.ServiceDnsName
                /\ call = [c \in {Caller} |-> SvcUpdateFrame(plan, state)]
       \/ \E k \in {"Stateless", "Stateful"} :
             \E plan \in FullServiceModels(k) :
                call = [c \in {Caller} |-> SvcUpdateFrame(plan, plan)]
       \/ \E k \in {"Stateless", "Actor"} :
             \E p \in {<<>>} \cup {<<m>> : m \in PartitionModels} :
                call = [c \in {Caller} |-> SvcCreateFrame(k, p)]
    /\ budget = MaxRequests
    /\ cluster = IdleCluster
    /\ client = DefaultClient

ServiceUpdate(c) ==
    /\ call[c].pc = "svc_update"
    /\ \E raw \in {NetErr, Http(StatusNotFound, "", NoBody),
                    Http(StatusOK, "", NoBody)} :
          Request(c, UpdateService(call[c], raw))

ServiceRefresh(c) ==
    /\ call[c].pc = "svc_get"
    /\ \E raw \in {NetErr, Http(StatusNotFound, "", NoBody),
                    Http(StatusOK, "", AppBody(TRUE, FALSE, FALSE))} :
          Request(c, GetService(call[c], raw))

ServiceCreate(c) ==
    /\ call[c].pc = "svc_create"
    /\ \E raw \in {NetErr, Http(StatusConflict, "", NoBody),
                    Http(StatusOK, "", NoBody)} :
          Request(c, CreateService(call[c], raw))

ServiceCreateCreated(c) ==
    /\ call[c].pc = "svccreate_created"
    /\ Step(c, serviceResource_Create_created(call[c]))

ServiceCreateRead(c) ==
    /\ call[c].pc = "svccreate_read"
    /\ Step(c, serviceResource_Create_read(call[c]))

ServiceUpdateUpdated(c) ==
    /\ call[c].pc = "svcupdate_updated"
    /\ Step(c, serviceResource_Update_updated(call[c]))

ServiceUpdateRead(c) ==
    /\ call[c].pc = "svcupdate_read"
    /\ Step(c, serviceResource_Update_read(call[c]))

NextSvc ==
    \/ ResourceEnter(Caller)
    \/ ServiceUpdate(Caller)
    \/ ServiceRefresh(Caller)
    \/ ServiceUpdateUpdated(Caller)
    \/ ServiceUpdateRead(Caller)
    \/ ServiceCreate(Caller)
    \/ ServiceCreateCreated(Caller)
    \/ ServiceCreateRead(Caller)

SpecSvc == InitSvc /\ [][NextSvc]_vars

(***************************************************************************)
(* SpecState: the classification of one status payload by the switch of    *)
(* pollOperation, for every pair of Status and State of the sets below.    *)
(***************************************************************************)
(* The pure helpers of the client (errors.go): the internal id of an        *)
(* application name and the parameter list of a description.  A name is a  *)
(* sequence of pieces: the word "fabric:", the separators "/" and "\", the *)
(* marker "~" and "a" for any other run of characters; the three prefixes  *)
(* the code looks for are sequences of these pieces.                       *)
(***************************************************************************)
\* strings.TrimPrefix
TrimPrefix(str, prefix) ==
    IF Len(str) >= Len(prefix) /\ SubSeq(str, 1, Len(prefix)) = prefix
      THEN SubSeq(str, Len(prefix) + 1, Len(str))
      ELSE str

\* strings.ReplaceAll for an old string of one piece
ReplaceAll(str, old, new) ==
    [i \in DOMAIN str |-> IF str[i] = old THEN new ELSE str[i]]

\* errors.go:742-748
applicationIDFromName(name) ==
    LET n1 == TrimPrefix(name, <<"fabric:", "/">>)
        n2 == TrimPrefix(n1, <<"fabric:", "\\">>)
        n3 == TrimPrefix(n2, <<"/">>)
    IN  ReplaceAll(n3, "/", "~")

\* url.PathEscape on the pieces of a name: "\" and "/" are escaped, the
\* other pieces are legal in a path segment
PathEscape(str) ==
    [i \in DOMAIN str |->
        CASE str[i] = "\\" -> "%5C"
          [] str[i] = "/" -> "%2F"
          [] OTHER -> str[i]]

\* the request path of the four calls that address one application
\* (errors.go:400-401, 480-481, 524-525, 541-542)
applicationEndpoint(method, name) ==
    LET appID == PathEscape(applicationIDFromName(name))
    IN  CASE method = "Delete" -> <<"/Applications/">> \o appID \o <<"/$/Delete">>
          [] method = "Upgrade" -> <<"/Applications/">> \o appID \o <<"/$/Upgrade">>
          [] method = "GetUpgradeProgress" ->
                <<"/Applications/">> \o appID \o <<"/$/GetUpgradeProgress">>
          [] method = "Get" -> <<"/Applications/">> \o appID

\* the byte order of the parameter keys of the model, as sort.Strings sees it
KeyOrder == <<"Env", "Zone", "count", "env">>

KeyRank(k) == CHOOSE i \in DOMAIN KeyOrder : KeyOrder[i] = k

RECURSIVE InsertSorted(_, _)
InsertSorted(sorted, k) ==
    IF sorted = <<>> THEN <<k>>
    ELSE IF KeyRank(k) < KeyRank(Head(sorted)) THEN <<k>> \o sorted
    ELSE <<Head(sorted)>> \o InsertSorted(Tail(sorted), k)

\* sort.Strings
RECURSIVE SortStrings(_)
SortStrings(keys) ==
    IF keys = <<>> THEN <<>>
    ELSE InsertSorted(SortStrings(Tail(keys)), Head(keys))

\* (variant: the keys stay in the order of the iteration)
mapToParameterList_Unsorted(m, order) ==
    [i \in DOMAIN order |-> [Key |-> order[i], Value |-> m[order[i]]]]

\* errors.go:719-733; order is the order in which range yields the keys of
\* m, which Go leaves unspecified.  nil and the empty list are both <<>>.
mapToParameterList(m, order) ==
    IF DOMAIN m = {} THEN <<>>
    ELSE LET keys == SortStrings(order)
         IN  [i \in DOMAIN keys |-> [Key |-> keys[i], Value |-> m[keys[i]]]]

\* errors.go:708-717: a later item of the list overwrites an earlier one
ParameterListToMap(list) ==
    [k \in {list[i].Key : i \in DOMAIN list} |->
        list[CHOOSE i \in DOMAIN list :
                /\ list[i].Key = k
                /\ \A j \in DOMAIN list : list[j].Key = k => j <= i].Value]

\* (variant: the list is never filled from the map)
ApplicationDescription_prepare_Never(a, order) == a

\* errors.go:652-656
ApplicationDescription_prepare(a, order) ==
    IF Len(a.ParameterList) = 0 /\ DOMAIN a.ParameterMap # {}
      THEN [a EXCEPT !.ParameterList = mapToParameterList(a.ParameterMap, order)]
      ELSE a

\* errors.go:439-443
ApplicationUpgradeDescription_prepare(d, order) ==
    IF Len(d.Parameters) = 0 /\ DOMAIN d.ParameterMap # {}
      THEN [d EXCEPT !.Parameters = mapToParameterList(d.ParameterMap, order)]
      ELSE d

\* the orders in which range can yield the keys of m
RangeOrders(m) ==
    {o \in [1..Cardinality(DOMAIN m) -> DOMAIN m] :
        \A i, j \in DOMAIN o : o[i] = o[j] => i = j}

\* application names of up to MaxNameLen pieces
MaxNameLen == 3

NamePieces == {"fabric:", "/", "\\", "a", "~"}

Names == UNION {[1..n -> NamePieces] : n \in 0..MaxNameLen}

\* parameter maps over the keys of KeyOrder
ParameterMaps ==
    UNION {[ks -> {"1", "2"}] : ks \in SUBSET {KeyOrder[i] : i \in DOMAIN KeyOrder}}

\* parameter lists a caller can have put into a description
ParameterLists ==
    {<<>>,
     <<[Key |-> "env", Value |-> "9"]>>,
     <<[Key |-> "count", Value |-> "1"], [Key |-> "Env", Value |-> "1"]>>}

FnCalls ==
    {[op |-> "Id", pc |-> "start", name |-> n, id |-> <<>>, again |-> <<>>,
      method |-> "", path |-> <<>>] : n \in Names}
    \cup {[op |-> "Params", pc |-> "start", m |-> m, order |-> <<>>,
           list |-> <<>>, back |-> <<>>] : m \in ParameterMaps}
    \cup {[op |-> "Create", pc |-> "start",
           app |-> [Name |-> n, ParameterMap |-> m, ParameterList |-> l],
           err |-> "", body |-> <<>>] :
             n \in {"", "fabric:/app"}, m \in ParameterMaps, l \in ParameterLists}
    \cup {[op |-> "Upgrade", pc |-> "start",
           desc |-> [Name |-> n, ParameterMap |-> m, Parameters |-> l],
           err |-> "", body |-> <<>>] :
             n \in {"", "fabric:/app"}, m \in ParameterMaps, l \in ParameterLists}

InitFn ==
    /\ \E f \in FnCalls : call = [c \in {Caller} |-> f]
    /\ budget = 0
    /\ cluster = IdleCluster
    /\ client = DefaultClient

\* applicationIDFromName(name)
DeriveID(c) ==
    /\ call[c].op = "Id" /\ call[c].pc = "start"
    /\ call' = [call EXCEPT ![c].pc = "derived",
                            ![c].id = applicationIDFromName(call[c].name)]
    /\ UNCHANGED <<budget, cluster, client>>

\* the transform applied to its own result
DeriveAgain(c) ==
    /\ call[c].op = "Id" /\ call[c].pc = "derived"
    /\ call' = [call EXCEPT ![c].pc = "again",
                            ![c].again = applicationIDFromName(call[c].id)]
    /\ UNCHANGED <<budget, cluster, client>>

\* one of the four calls builds its path for the name
BuildEndpoint(c) ==
    /\ call[c].op = "Id" /\ call[c].pc = "again"
    /\ \E method \in {"Delete", "Get", "Upgrade", "GetUpgradeProgress"} :
          call' = [call EXCEPT ![c].pc = "done",
                               ![c].method = method,
                               ![c].path = applicationEndpoint(method, call[c].name)]
    /\ UNCHANGED <<budget, cluster, client>>

\* mapToParameterList(m), for every order of the iteration
ToParameterList(c) ==
    /\ call[c].op = "Params" /\ call[c].pc = "start"
    /\ \E order \in RangeOrders(call[c].m) :
          call' = [call EXCEPT ![c].pc = "listed",
                               ![c].order = order,
                               ![c].list = mapToParameterList(call[c].m, order)]
    /\ UNCHANGED <<budget, cluster, client>>

\* ParameterListToMap of that list
BackToMap(c) ==
    /\ call[c].op = "Params" /\ call[c].pc = "listed"
    /\ call' = [call EXCEPT ![c].pc = "done",
                            ![c].back = ParameterListToMap(call[c].list)]
    /\ UNCHANGED <<budget, cluster, client>>

\* errors.go:379-385: the body CreateApplication hands to doRequest
CreateBody(c) ==
    /\ call[c].op = "Create" /\ call[c].pc = "start"
    /\ IF call[c].app.Name = ""
         THEN call' = [call EXCEPT ![c].pc = "done",
                                   ![c].err = "application name required"]
         ELSE \E order \in RangeOrders(call[c].app.ParameterMap) :
                call' = [call EXCEPT
                           ![c].pc = "sent",
                           ![c].body = <<ApplicationDescription_prepare(
                                             call[c].app, order)>>]
    /\ UNCHANGED <<budget, cluster, client>>

\* errors.go:452-456 and 479-482: the body startApplicationUpgrade hands to
\* doRequest
UpgradeBody(c) ==
    /\ call[c].op = "Upgrade" /\ call[c].pc = "start"
    /\ IF call[c].desc.Name = ""
         THEN call' = [call EXCEPT ![c].pc = "done",
                                   ![c].err = "application name required"]
         ELSE \E order \in RangeOrders(call[c].desc.ParameterMap) :
                call' = [call EXCEPT
                           ![c].pc = "sent",
                           ![c].body = <<ApplicationUpgradeDescription_prepare(
                                             call[c].desc, order)>>]
    /\ UNCHANGED <<budget, cluster, client>>

NextFn ==
    \/ DeriveID(Caller)
    \/ DeriveAgain(Caller)
    \/ BuildEndpoint(Caller)
    \/ ToParameterList(Caller)
    \/ BackToMap(Caller)
    \/ CreateBody(Caller)
    \/ UpgradeBody(Caller)

SpecFn == InitFn /\ [][NextFn]_vars

(***************************************************************************)
(* SpecHttp: the requests of doRequest and of pollOperation, from two      *)
(* callers of one client.  Each step of the code up to http.Client.Do is   *)
(* one action; the steps that hold a pointer to the client return the      *)
(* client as they leave it.                                                *)
(***************************************************************************)
\* url.Values.Get for the key api-version
Get(values) == IF values = <<>> THEN "" ELSE values[1]

\* strings.TrimSuffix(path, "/")
TrimSuffix(path) ==
    IF path # <<>> /\ path[Len(path)] = "/"
      THEN SubSeq(path, 1, Len(path) - 1)
      ELSE path

\* (variant: base is the client's URL itself, not a copy of it)
buildURL_Alias(c, path, query) ==
    LET p == IF path # <<>> /\ path[1] = "/" THEN path ELSE <<"/">> \o path
        q == c.endpoint.Query \o query
        u == [c.endpoint EXCEPT
                !.Path = IF c.endpoint.Path \in {<<>>, <<"/">>} THEN p
                         ELSE TrimSuffix(c.endpoint.Path) \o p,
                !.Query = IF Get(q) = "" THEN <<c.apiVersion>> ELSE q]
    IN  [url |-> u, client |-> [c EXCEPT !.endpoint = u]]

\* errors.go:93-114.  base := *c.endpoint is a copy; q.Add appends the
\* caller's values to those of the endpoint's query, q.Set replaces them all.
buildURL(c, path, query) ==
    LET p == IF path # <<>> /\ path[1] = "/" THEN path ELSE <<"/">> \o path
        base == c.endpoint
        q == base.Query \o query
    IN  [url |-> [base EXCEPT
                    !.Path = IF base.Path \in {<<>>, <<"/">>} THEN p
                             ELSE TrimSuffix(base.Path) \o p,
                    !.Query = IF Get(q) = "" THEN <<c.apiVersion>> ELSE q],
         client |-> c]

\* a Location header: one url.Parse refuses, or the URL it parses to
BadLocation == [ok |-> FALSE, url |-> URL(FALSE, <<>>, <<>>)]

Location(abs, path, query) == [ok |-> TRUE, url |-> URL(abs, path, query)]

\* errors.go:750-784, with the URL it returns
Client_resolveLocation(c, location) ==
    IF ~location.ok
      THEN [err |-> "parse", url |-> location.url, client |-> c]
    ELSE LET loc == location.url
             base == c.endpoint
             query == base.Query \o loc.Query
         IN  IF ~loc.Abs
               THEN [err |-> "",
                     url |-> [base EXCEPT
                                !.Path =
                                   IF loc.Path = <<>> THEN base.Path
                                   ELSE IF base.Path \in {<<>>, <<"/">>}
                                     THEN loc.Path
                                   ELSE TrimSuffix(base.Path) \o <<"/">>
                                          \o TrimPrefix(loc.Path, <<"/">>),
                                !.Query = IF Get(query) = ""
                                            THEN <<c.apiVersion>> ELSE query],
                     client |-> c]
               ELSE [err |-> "",
                     url |-> [loc EXCEPT
                                !.Query = IF Get(loc.Query) = ""
                                            THEN <<c.apiVersion>> ELSE @],
                     client |-> c]

\* a call of SpecHttp: the arguments, the local variables and, as history,
\* the calls of Apply and the requests handed to http.Client.Do
HttpFrame(op, pc, path, query, location, arg) ==
    [op |-> op, pc |-> pc, path |-> path, query |-> query,
     location |-> location,
     arg |-> arg,            \* the description the caller passed, if any
     body |-> <<>>,          \* the callee's copy of it
     url |-> <<>>,           \* urlStr or target
     credentials |-> FALSE,  \* Apply has attached credentials to req
     applies |-> 0,          \* calls of Apply
     applyFailed |-> FALSE,  \* the last of them failed
     log |-> <<>>,           \* the requests handed to http.Client.Do
     err |-> ""]

\* errors.go:379-385: app is the callee's copy of the argument
CreateApplication_prepare(f, order) ==
    [f EXCEPT !.body = <<ApplicationDescription_prepare(f.arg[1], order)>>,
              !.pc = "build"]

\* errors.go:117-120
doRequest_build(f, c) ==
    [f EXCEPT !.url = <<buildURL(c, f.path, f.query).url>>,
              !.credentials = FALSE, !.pc = "apply"]

\* errors.go:188-198: an empty Location ends the poll, one that does not
\* parse fails it
pollOperation_build(f, c) ==
    IF f.location = <<>> THEN [f EXCEPT !.pc = "done"]
    ELSE IF Client_resolveLocation(c, f.location[1]).err # ""
      THEN [f EXCEPT !.err = "parse", !.pc = "done"]
    ELSE [f EXCEPT !.url = <<Client_resolveLocation(c, f.location[1]).url>>,
                   !.credentials = FALSE, !.pc = "apply"]

\* Authenticator.Apply on the request, when c.auth is not nil
Apply(f, auth, ok) ==
    IF auth = "" THEN [f EXCEPT !.pc = "do"]
    ELSE IF ok
      THEN [f EXCEPT !.applies = @ + 1, !.applyFailed = FALSE,
                     !.credentials = TRUE, !.pc = "do"]
    ELSE [f EXCEPT !.applies = @ + 1, !.applyFailed = TRUE,
                   !.err = "apply", !.pc = "done"]

\* (variant: the poll is sent without credentials)
pollOperation_apply_Never(f, auth, ok) == [f EXCEPT !.pc = "do"]

\* errors.go:140-144
doRequest_apply(f, auth, ok) == Apply(f, auth, ok)

\* errors.go:198-202
pollOperation_apply(f, auth, ok) == Apply(f, auth, ok)

\* errors.go:146-186: the request is sent; doRequest returns what came
doRequest_do(f) ==
    [f EXCEPT !.log = Append(@, [url |-> f.url[1],
                                 credentials |-> f.credentials]),
              !.pc = "done"]

\* errors.go:203-239: the poll is sent; a terminal state or an error ends the
\* loop, any other state leads to the next iteration
pollOperation_do(f, again) ==
    [f EXCEPT !.log = Append(@, [url |-> f.url[1],
                                 credentials |-> f.credentials]),
              !.pc = IF again THEN "build" ELSE "done"]

\* requests answered in one run of SpecHttp
HttpRequests == 3

HttpCallers == {1, 2}

ApiVersionValues == {<<>>, <<"">>, <<"7.0">>, <<"", "7.0">>}

HttpClients ==
    {NewClient(ClientConfig(URL(TRUE, path, query), version, "", auth)) :
        path \in {<<>>, <<"/">>, <<"/", "gw", "/">>},
        query \in {<<>>, <<"5.0">>},
        version \in {"", "6.1"},
        auth \in {"", "token"}}

\* the calls of the first caller: doRequest with any query, or
\* CreateApplication with a description
HttpCalls ==
    {HttpFrame("doRequest", "build", path, query, <<>>, <<>>) :
        path \in {<<"/", "op">>, <<"op">>}, query \in ApiVersionValues}
    \cup {HttpFrame("CreateApplication", "prepare",
                    <<"/", "Applications", "/", "$", "/", "Create">>, <<>>, <<>>,
                    <<[Name |-> "fabric:/app", ParameterMap |-> m,
                       ParameterList |-> <<>>]>>) :
            m \in {<<>>, [k \in {"env", "Env"} |-> "1"]}}

\* the polls of the second caller
HttpPolls ==
    {HttpFrame("pollOperation", "build", <<>>, <<>>, location, <<>>) :
        location \in
            {<<>>, <<BadLocation>>}
            \cup {<<Location(TRUE, <<"/", "op">>, query)>> :
                     query \in ApiVersionValues}
            \cup {<<Location(FALSE, path, query)>> :
                     path \in {<<>>, <<"op">>, <<"/", "op">>},
                     query \in {<<>>, <<"7.0">>}}}

InitHttp ==
    /\ \E f \in HttpCalls, g \in HttpPolls :
          call = [c \in HttpCallers |-> IF c = 1 THEN f ELSE g]
    /\ budget = HttpRequests
    /\ cluster = IdleCluster
    /\ client \in HttpClients

HttpPrepare(c) ==
    /\ call[c].op = "CreateApplication" /\ call[c].pc = "prepare"
    /\ \E order \in RangeOrders(call[c].arg[1].ParameterMap) :
          call' = [call EXCEPT ![c] = CreateApplication_prepare(call[c], order)]
    /\ UNCHANGED <<budget, cluster, client>>

HttpBuild(c) ==
    /\ call[c].op \in {"doRequest", "CreateApplication"} /\ call[c].pc = "build"
    /\ call' = [call EXCEPT ![c] = doRequest_build(call[c], client)]
    /\ client' = buildURL(client, call[c].path, call[c].query).client
    /\ UNCHANGED <<budget, cluster>>

HttpApply(c) ==
    /\ call[c].op \in {"doRequest", "CreateApplication"} /\ call[c].pc = "apply"
    /\ \E ok \in BOOLEAN :
          call' = [call EXCEPT ![c] = doRequest_apply(call[c], client.auth, ok)]
    /\ UNCHANGED <<budget, cluster, client>>

HttpDo(c) ==
    /\ call[c].op \in {"doRequest", "CreateApplication"} /\ call[c].pc = "do"
    /\ budget > 0
    /\ call' = [call EXCEPT ![c] = doRequest_do(call[c])]
    /\ budget' = budget - 1
    /\ UNCHANGED <<cluster, client>>

PollBuild(c) ==
    /\ call[c].op = "pollOperation" /\ call[c].pc = "build"
    /\ call' = [call EXCEPT ![c] = pollOperation_build(call[c], client)]
    /\ client' = IF call[c].location = <<>> THEN client
                 ELSE Client_resolveLocation(client, call[c].location[1]).client
    /\ UNCHANGED <<budget, cluster>>

PollApply(c) ==
    /\ call[c].op = "pollOperation" /\ call[c].pc = "apply"
    /\ \E ok \in BOOLEAN :
          call' = [call EXCEPT
                     ![c] = pollOperation_apply(call[c], client.auth, ok)]
    /\ UNCHANGED <<budget, cluster, client>>

PollDo(c) ==
    /\ call[c].op = "pollOperation" /\ call[c].pc = "do"
    /\ budget > 0
    /\ \E again \in BOOLEAN :
          call' = [call EXCEPT ![c] = pollOperation_do(call[c], again)]
    /\ budget' = budget - 1
    /\ UNCHANGED <<cluster, client>>

NextHttp ==
    \E c \in HttpCallers :
        \/ HttpPrepare(c)
        \/ HttpBuild(c)
        \/ HttpApply(c)
        \/ HttpDo(c)
        \/ PollBuild(c)
        \/ PollApply(c)
        \/ PollDo(c)

SpecHttp == InitHttp /\ [][NextHttp]_vars

(***************************************************************************)
StateWords ==
    {"", "Succeeded", "succeeded", "SUCCESS", "success", "Completed",
     "completed", "COMPLETE", "complete", "Failed", "FAILED", "failed",
     "Faulted", "faulted", "InProgress", "Running", "Pending", "succeed"}

Payloads ==
    {PollBody(TRUE, FALSE, st, sf, NoPoll.o.Error) :
        st \in StateWords, sf \in StateWords}

InitState ==
    /\ \E o \in Payloads :
          call = [c \in {Caller} |->
                    [op |-> "Classify", pc |-> "decoded", payload |-> o,
                     state |-> "", verdict |-> ""]]
    /\ budget = 0
    /\ cluster = IdleCluster
    /\ client = DefaultClient

\* lines 222-227: status.State(), then the switch
Classify(c) ==
    /\ call[c].pc = "decoded"
    /\ call' = [call EXCEPT ![c].pc = "classified",
                            ![c].state = State(call[c].payload),
                            ![c].verdict = pollVerdict(call[c].payload)]
    /\ UNCHANGED <<budget, cluster, client>>

NextState == Classify(Caller)

SpecState == InitState /\ [][NextState]_vars

(***************************************************************************)
(* Properties of UpgradeApplication and waitForApplicationUpgrade.         *)
(***************************************************************************)
Upgrades == {call[c] : c \in {d \in DOMAIN call : call[d].op = "Upgrade"}}

\* the answer "upgrade already in progress" to a start request
IsConflictAnswer(e) ==
    e.kind = "api" /\ e.status = 409 /\ e.code = CodeUpgradeInProgress

FirstStartConflict(f) ==
    Len(f.starts) >= 1 /\ IsConflictAnswer(f.starts[1])

ReturnedWaits(f) == {f.waitLog[i] : i \in 1..Len(f.waitLog)}

TerminalUpgradeStates ==
    {"RollingForwardCompleted", "RollingBackCompleted", "Failed"}

\* C1, as stated: when the first start request is rejected with the
\* upgrade-in-progress conflict, the finished call has made exactly one
\* wait-for-completion cycle and then exactly one further start request.
C1_Original ==
    \A f \in Upgrades :
        (f.pc = "done" /\ FirstStartConflict(f)) =>
            /\ Len(f.starts) = 2
            /\ f.waitsAtStart[2] = 1

\* C1, amended: after a first start rejected with the conflict the call makes
\* one wait cycle and then at most one further start request: exactly one,
\* after that single wait, when the wait returned success, and none when the
\* wait returned an error, which is then the call's result.  There is never a
\* third start request, and a failure of the retry (a second conflict
\* included) is the call's result.
C1_OneRetry ==
    \A f \in Upgrades :
        FirstStartConflict(f) =>
            /\ Len(f.starts) <= 2
            /\ Len(f.starts) = 2 =>
                  /\ f.waitsAtStart[2] = 1
                  /\ Len(f.waitLog) >= 1
                  /\ f.waitLog[1].rv.kind = "nil"
            /\ f.pc = "done" =>
                  /\ Len(f.waitLog) >= 1
                  /\ IF f.waitLog[1].rv.kind = "nil"
                       THEN Len(f.starts) = 2
                       ELSE Len(f.starts) = 1 /\ f.result = f.waitLog[1].rv
                  /\ (Len(f.starts) = 2 /\ f.starts[2].kind # "nil") =>
                        (f.result = f.starts[2] /\ f.waits = 1)

C1_Witness ==
    \E f \in Upgrades :
        /\ f.pc = "done"
        /\ FirstStartConflict(f)
        /\ Len(f.starts) = 2
        /\ IsConflictAnswer(f.starts[2])
        /\ f.result = f.starts[2]

\* C2, as stated: after a start rejected with upgrade-in-progress, once a
\* progress poll reports a terminal state (rolling-forward-completed,
\* rolling-back-completed or failed) the start request is re-issued exactly
\* once; a start failure of any other kind is the call's result at once, with
\* no progress poll and no retry.
C2_RetryAfterTerminal ==
    \A f \in Upgrades :
        /\ ( /\ f.pc = "done"
             /\ FirstStartConflict(f)
             /\ Len(f.waitLog) >= 1
             /\ f.waitLog[1].last.err.kind = "nil"
             /\ f.waitLog[1].last.UpgradeState \in TerminalUpgradeStates )
           => Len(f.starts) = 2
        /\ ( /\ Len(f.starts) >= 1
             /\ f.starts[1].kind # "nil"
             /\ ~IsConflictAnswer(f.starts[1]) )
           => ( /\ f.pc = "done"
                /\ f.result = f.starts[1]
                /\ f.polls = 0
                /\ Len(f.starts) = 1 )

\* the wait that UpgradeApplication returns the result of
FinalWait(f) == f.waitLog[Len(f.waitLog)]

AfterAcceptedStart(f) ==
    /\ Len(f.starts) >= 1
    /\ f.starts[Len(f.starts)].kind = "nil"
    /\ Len(f.waitLog) >= 1
    /\ FinalWait(f).afterStarts = Len(f.starts)
    /\ FinalWait(f).polls >= 1

\* C3, as stated: UpgradeApplication returns success only after a progress
\* poll, issued after its start request was accepted, has reported a terminal
\* state.
C3_Original ==
    \A f \in Upgrades :
        (f.pc = "done" /\ f.result.kind = "nil") =>
            /\ AfterAcceptedStart(f)
            /\ FinalWait(f).last.err.kind = "nil"
            /\ FinalWait(f).last.UpgradeState \in TerminalUpgradeStates

\* C3, amended: UpgradeApplication returns success only after a progress poll,
\* issued after its start request was accepted (on the first attempt or on the
\* conflict retry), has answered rolling-forward-completed, an empty upgrade
\* state or not-found; it never returns success directly from the start
\* response.
C3_SuccessAfterPoll ==
    \A f \in Upgrades :
        (f.pc = "done" /\ f.result.kind = "nil") =>
            /\ AfterAcceptedStart(f)
            /\ \/ /\ FinalWait(f).last.err.kind = "nil"
                  /\ FinalWait(f).last.UpgradeState \in {"RollingForwardCompleted", ""}
               \/ /\ FinalWait(f).last.err.kind = "api"
                  /\ FinalWait(f).last.err.status = 404

C3_Witness ==
    \E f \in Upgrades :
        /\ f.pc = "done"
        /\ f.result.kind = "nil"
        /\ Len(f.starts) = 2
        /\ FinalWait(f).last.err.kind = "api"

\* C4, as stated: when the application exists (the progress poll is answered
\* with a progress), waitForApplicationUpgrade returns success only when the
\* state is rolling-forward-completed, returns an error carrying the state and
\* the details when it is rolling-back-completed or failed, and keeps polling
\* for every other state.
C4_Original ==
    \A f \in Upgrades :
        /\ \A w \in ReturnedWaits(f) :
              w.last.err.kind = "nil" =>
                 /\ (~w.fromSelect /\ w.rv.kind = "nil")
                       <=> w.last.UpgradeState = "RollingForwardCompleted"
                 /\ w.last.UpgradeState \in {"RollingBackCompleted", "Failed"}
                       <=> ( /\ ~w.fromSelect
                             /\ w.rv.kind = "local"
                             /\ w.rv.msg = <<"application upgrade failed",
                                             w.last.UpgradeState,
                                             w.last.UpgradeStatusDetails>> )
                 /\ w.last.UpgradeState \notin TerminalUpgradeStates
                       => w.fromSelect
        /\ f.pc = "w_select" =>
              /\ f.lastProg.err.kind = "nil"
              /\ f.lastProg.UpgradeState \notin TerminalUpgradeStates

\* C4, amended: when the application exists, waitForApplicationUpgrade returns
\* success only when the polled upgrade state is rolling-forward-completed or
\* empty, returns an error carrying the state and the details when it is
\* rolling-back-completed or failed, and keeps polling for every other state.
C4_Verdicts ==
    \A f \in Upgrades :
        /\ \A w \in ReturnedWaits(f) :
              w.last.err.kind = "nil" =>
                 /\ (~w.fromSelect /\ w.rv.kind = "nil")
                       <=> w.last.UpgradeState \in {"RollingForwardCompleted", ""}
                 /\ w.last.UpgradeState \in {"RollingBackCompleted", "Failed"}
                       <=> ( /\ ~w.fromSelect
                             /\ w.rv.kind = "local"
                             /\ w.rv.msg = <<"application upgrade failed",
                                             w.last.UpgradeState,
                                             w.last.UpgradeStatusDetails>> )
                 /\ w.last.UpgradeState \notin (TerminalUpgradeStates \cup {""})
                       => w.fromSelect
        /\ f.pc = "w_select" =>
              /\ f.lastProg.err.kind = "nil"
              /\ f.lastProg.UpgradeState \notin (TerminalUpgradeStates \cup {""})

C4_Witness ==
    \E f \in Upgrades : \E w \in ReturnedWaits(f) :
        /\ w.last.err.kind = "nil"
        /\ w.last.UpgradeState = ""
        /\ w.rv.kind = "nil"
        /\ w.polls >= 2

\* C5: a progress poll answered not-found ends the wait at once with success,
\* any other error of a progress poll ends it at once with that error; a wait
\* never goes on after a poll that failed.
C5_PollErrors ==
    \A f \in Upgrades :
        /\ \A w \in ReturnedWaits(f) :
              w.last.err.kind # "nil" =>
                 /\ w.polls >= 1
                 /\ ~w.fromSelect
                 /\ IF w.last.err.kind = "api" /\ w.last.err.status = 404
                      THEN w.rv.kind = "nil"
                      ELSE w.rv = w.last.err
        /\ f.pc = "w_select" => f.lastProg.err.kind = "nil"
        /\ (f.pc = "w_poll" /\ f.pollsInWait > 0) => f.lastProg.err.kind = "nil"

C5_Witness ==
    \E f \in Upgrades : \E w \in ReturnedWaits(f) :
        /\ w.last.err.kind = "api"
        /\ w.last.err.status = 404
        /\ w.rv.kind = "nil"
        /\ w.polls >= 2

(***************************************************************************)
(* Concurrent upgrades of one application.                                 *)
(***************************************************************************)
AllReturnedSuccess ==
    \A c \in DOMAIN call : call[c].pc = "done" /\ call[c].result.kind = "nil"

\* C6: of two concurrent UpgradeApplication calls for one application, against
\* a cluster that admits one upgrade at a time, answers a start made during
\* an upgrade with the conflict and rolls every admitted upgrade forward,
\* neither returns an error (the conflict least of all): a call that returns
\* has had exactly one start admitted, its last one, and has seen a terminal
\* success of an upgrade after it; and both calls eventually return success.
C6_BothUpgradesSucceed ==
    /\ [](\A c \in DOMAIN call :
             call[c].pc = "done" =>
                /\ call[c].result.kind = "nil"
                /\ cluster.admitted[c] = 1
                /\ call[c].starts[Len(call[c].starts)].kind = "nil"
                /\ Len(call[c].starts) <= 2
                /\ \A i \in 1..(Len(call[c].starts) - 1) :
                      IsConflictAnswer(call[c].starts[i]))
    /\ <>AllReturnedSuccess

C6_Witness ==
    /\ AllReturnedSuccess
    /\ \E c \in DOMAIN call :
          /\ FirstStartConflict(call[c])
          /\ Len(call[c].starts) = 2
          /\ call[c].polls >= 3
    /\ \E c \in DOMAIN call : Len(call[c].starts) = 1

(***************************************************************************)
(* Properties of pollOperation.                                            *)
(***************************************************************************)
Frames == {call[c] : c \in DOMAIN call}

ReturnedPolls(f) == {f.pollLog[i] : i \in 1..Len(f.pollLog)}

\* the state of a status payload: Status, or State when Status is empty
EffectiveState(o) == IF o.Status = "" THEN o.StateF ELSE o.Status

\* the state values of the model that are terminal, compared without case
TerminalSuccessStates == {"Succeeded", "COMPLETE"}

TerminalFailureStates == {"Faulted"}

\* C7: pollOperation stops at the first terminal response: a terminal success
\* state makes it return success, a terminal failure state (after any number
\* of transitional ones) an error holding the nested failure message, and a
\* pollOperation that is still polling has never seen a terminal response.
C7_StopsAtTerminal ==
    \A f \in Frames :
        /\ \A p \in ReturnedPolls(f) :
              p.last.class = "status" =>
                 /\ EffectiveState(p.last.o) \in TerminalSuccessStates =>
                       (~p.fromSelect /\ p.rv.kind = "nil")
                 /\ EffectiveState(p.last.o) \in TerminalFailureStates =>
                       /\ ~p.fromSelect
                       /\ p.rv.kind = "local"
                       /\ p.rv.msg = <<"operation failed",
                                       IF p.last.o.Error.isNil THEN ""
                                       ELSE p.last.o.Error.Message>>
        /\ (f.pc \in {"p_req", "p_select"} /\ f.pollReqs > 0) =>
              /\ f.lastPoll.class = "status"
              /\ EffectiveState(f.lastPoll.o)
                    \notin (TerminalSuccessStates \cup TerminalFailureStates)

C7_Witness ==
    \E f \in Frames : \E p \in ReturnedPolls(f) :
        /\ p.reqs >= 3
        /\ p.last.class = "status"
        /\ EffectiveState(p.last.o) \in TerminalFailureStates
        /\ p.rv.msg = <<"operation failed", "disk full">>

\* C8, as stated: the wait before the next poll is 5 seconds until a response
\* carries a Retry-After header holding a positive integer number of seconds,
\* and from then on the most recent such value; no other response changes it.
C8_DelayFromIntegerHeaders ==
    \A f \in Frames :
        f.pc = "p_select" =>
            f.timer = IF f.lastIntHdr = <<>> THEN 5000
                      ELSE 1000 * DecimalValue(f.lastIntHdr, Len(f.lastIntHdr))

(***************************************************************************)
(* Cancellation.                                                           *)
(***************************************************************************)
SelectSites == {"w_select", "p_select", "ga_backoff"}

\* C9: when the context is cancelled while the call sleeps in the select of
\* pollOperation, of waitForApplicationUpgrade or of GetApplication's backoff,
\* the goroutine is woken by the ctx.Done() case (it does not wait for the
\* timer), the function and the call return the context's error, and no
\* request is sent after the cancellation.
C9_Cancellation ==
    \A f \in Frames :
        f.cancelledInWait =>
            /\ f.sent = f.sentAtCancel
            /\ f.pc = "done" => f.result.kind = "ctx"
            /\ f.pc \in SelectSites => f.wake = "ctx"
            /\ f.pc \notin SelectSites \cup {"done"} =>
                  /\ f.pc \in {"up_retry", "up_final", "ga_polled"}
                  /\ f.rv.kind = "ctx"

C9_Witness ==
    \E f \in Frames :
        /\ f.cancelledInWait
        /\ f.cancelSite = "ga_backoff"
        /\ f.reads >= 2
        /\ f.pc = "done"

(***************************************************************************)
(* Properties of GetApplication.                                           *)
(***************************************************************************)
GetApps == {f \in Frames : f.op = "GetApp"}

Is202(r) == r.err.kind = "nil" /\ r.status = 202

\* what GetApplication returns for an answer r that is not a 202
IsOutcomeOf(f, r) ==
    IF r.err.kind # "nil" THEN f.result = r.err
    ELSE IF r.status = 204 THEN f.result.kind = "api" /\ f.result.status = 404
    ELSE IF r.body.readErr THEN f.result.kind = "net"
    ELSE IF r.body.empty \/ ~r.body.ok THEN f.result.kind = "local"
    ELSE f.result.kind = "nil" /\ f.value = "info"

\* on a 202 the Location is polled if and only if one is given, and the
\* backoff is of 2 seconds
PollsAndBackoff(f) ==
    /\ f.pc \in {"p_entry", "p_req", "p_select", "ga_polled"} =>
          /\ Is202(f.lastRead)
          /\ f.lastRead.loc # ""
          /\ Len(f.pollLog) + (IF f.pc = "ga_polled" THEN 0 ELSE 1) = f.n202loc
    /\ f.pc = "ga_backoff" =>
          /\ f.timer = 2000
          /\ Is202(f.lastRead)
          /\ Len(f.pollLog) = f.n202loc
          /\ f.lastRead.loc # "" => f.pollLog[Len(f.pollLog)].rv.kind = "nil"
    /\ f.pc = "ga_read" => f.reads = f.n202

\* C10, as stated: GetApplication re-reads for as long as the cluster answers
\* 202 and returns the outcome of the first answer that is not a 202, after
\* exactly (number of 202 answers) + 1 reads; only the cancellation of the
\* context ends it otherwise.
C10_Original ==
    \A f \in GetApps :
        /\ PollsAndBackoff(f)
        /\ f.pc = "done" =>
              \/ f.result.kind \in {"ctx", "urlctx"}
              \/ /\ ~Is202(f.lastRead)
                 /\ IsOutcomeOf(f, f.lastRead)
                 /\ f.reads = f.n202 + 1

\* C10, amended: GetApplication on a 202 polls the Location if one is given
\* and, when that poll succeeds or there is none, waits 2 seconds and reads
\* again, without a retry cap; it returns the outcome of the first answer
\* that is not a 202, after exactly (number of 202 answers) + 1 reads, or the
\* error of a poll of a Location that failed, at once and without another
\* read.  An endless sequence of 202 answers ends only by the cancellation of
\* the context or by such a failed poll.
C10_RereadOn202 ==
    \A f \in GetApps :
        /\ PollsAndBackoff(f)
        /\ f.pc = "done" =>
              \/ f.result.kind \in {"ctx", "urlctx"}
              \/ /\ ~Is202(f.lastRead)
                 /\ IsOutcomeOf(f, f.lastRead)
                 /\ f.reads = f.n202 + 1
              \/ /\ Is202(f.lastRead)
                 /\ f.lastRead.loc # ""
                 /\ Len(f.pollLog) = f.n202loc
                 /\ f.reads = f.n202
                 /\ f.result = f.pollLog[Len(f.pollLog)].rv
                 /\ f.result.kind # "nil"

C10_Witness ==
    \E f \in GetApps :
        /\ f.pc = "done"
        /\ f.reads = 4
        /\ f.n202 = 3
        /\ f.n202loc = 1
        /\ f.result.kind = "nil"

(***************************************************************************)
(* Properties of the lifecycle methods and of the resource layer           *)
(* (SpecLife).                                                             *)
(***************************************************************************)
\* the last read of the application was answered 204 No Content
Read204(f) == f.lastRead.err.kind = "nil" /\ f.lastRead.status = 204

\* C11: GetApplication on a 204 No Content returns, without another read, a
\* typed API error whose StatusCode is 404, and the application resource's
\* Read, for which it is a not-found error, removes the resource from the
\* state without reporting an error.
C11_NoContentIsNotFound ==
    \A f \in Frames :
        (f.op \in {"GetApp", "AppRead"} /\ Read204(f)) =>
            /\ f.reads = f.n202 + 1
            /\ f.op = "GetApp" =>
                  /\ f.pc = "done"
                  /\ f.result.kind = "api"
                  /\ f.result.status = 404
            /\ f.op = "AppRead" =>
                  \/ /\ f.pc = "appread_ret"
                     /\ f.rv.kind = "api"
                     /\ f.rv.status = 404
                  \/ /\ f.pc = "done"
                     /\ f.removed
                     /\ ~f.stateSet
                     /\ f.diags = <<>>

C11_Witness ==
    \E f \in Frames :
        /\ f.op = "AppRead"
        /\ Read204(f)
        /\ f.n202 >= 1
        /\ f.pc = "done"
        /\ f.removed

\* the calls of the four methods that send a mutating POST
PostMethods == {"Provision", "Unprovision", "CreateApp", "DeleteApp"}

Accepted202(f) ==
    /\ Len(f.posts) = 1
    /\ f.posts[1].err.kind = "nil"
    /\ f.posts[1].status = 202

\* the poller returned success after a response with a terminal success state
ObservedSuccess(p) ==
    /\ p.rv.kind = "nil"
    /\ p.reqs >= 1
    /\ p.last.class = "status"
    /\ EffectiveState(p.last.o) \in TerminalSuccessStates

\* one POST; its error, the poller's outcome on a 202, success otherwise
OnePostThenPoll(f) ==
    /\ Len(f.posts) <= 1
    /\ f.pc \in {"p_entry", "p_req", "p_select", "post_polled"} => Accepted202(f)
    /\ f.pc = "done" =>
          /\ Len(f.posts) = 1
          /\ f.posts[1].err.kind # "nil" =>
                (f.result = f.posts[1].err /\ f.pollLog = <<>>)
          /\ Accepted202(f) =>
                (Len(f.pollLog) = 1 /\ f.result = f.pollLog[1].rv)
          /\ (f.posts[1].err.kind = "nil" /\ f.posts[1].status # 202) =>
                (f.result.kind = "nil" /\ f.pollLog = <<>> /\ f.sent = 1)

C13_EmptyLocation ==
    \A f \in Frames :
        /\ (f.op = "Poll" /\ f.location = "") =>
              /\ f.sent = 0
              /\ f.pc \in {"p_entry", "done"}
              /\ f.pc = "done" =>
                    (f.result.kind = "nil" /\ f.pollLog[1].reqs = 0)
        /\ (f.op \in PostMethods /\ Accepted202(f) /\ f.posts[1].loc = "") =>
              /\ f.sent = 1
              /\ f.pc \in {"p_entry", "post_polled", "done"}
              /\ f.pc = "post_polled" => f.rv.kind = "nil"
              /\ f.pc = "done" =>
                    (f.result.kind = "nil" /\ f.pollLog[1].reqs = 0)

C13_Witness ==
    \E f \in Frames :
        /\ f.op = "DeleteApp"
        /\ Accepted202(f)
        /\ f.posts[1].loc = ""
        /\ f.pc = "done"
        /\ f.result.kind = "nil"

(***************************************************************************)
(* The state of a status payload (SpecState).                              *)
(***************************************************************************)
\* the spellings, among StateWords, of the terminal states
SuccessWords ==
    {"Succeeded", "succeeded", "SUCCESS", "success", "Completed", "completed",
     "COMPLETE", "complete"}

FailureWords == {"Failed", "FAILED", "failed", "Faulted", "faulted"}

\* C14: the poller's state of a status payload is the Status field when it is
\* not empty and the State field otherwise; whatever the case of its letters,
\* succeeded / success / completed / complete end the polling with success,
\* failed / faulted end it with an error, and every other value, the empty
\* string included, leads to another poll.
C14_StateClassification ==
    \A c \in DOMAIN call :
        call[c].pc = "classified" =>
            /\ call[c].state = IF call[c].payload.Status # ""
                                 THEN call[c].payload.Status
                                 ELSE call[c].payload.StateF
            /\ call[c].verdict =
                  IF call[c].state \in SuccessWords THEN "success"
                  ELSE IF call[c].state \in FailureWords THEN "failure"
                  ELSE "continue"

C14_Witness ==
    \E c \in DOMAIN call :
        /\ call[c].pc = "classified"
        /\ call[c].payload.Status = ""
        /\ call[c].payload.StateF = "FAILED"
        /\ call[c].verdict = "failure"

(***************************************************************************)
(* Not-found answers and the lifecycle methods of the client (SpecLife).   *)
(***************************************************************************)
LifecycleMethods ==
    {"Provision", "Unprovision", "CreateApp", "DeleteApp", "GetApp", "Upgrade"}

\* the typed error of a response with status 404
NotFoundAnswer(err) == err.kind = "api" /\ err.status = 404

\* a POST or a read of the application whose response, with status 404,
\* reached the client (a cancelled context cuts the request off)
NotFoundResponse(a) == a.status = 404 /\ a.err.kind # "urlctx"

\* a status poll of pollOperation that was answered 404
NotFoundPoll(p) == p.last.class = "http4xx" /\ p.rv.status = 404

\* some request of the call was answered not-found
GotNotFound(f) ==
    \/ \E i \in DOMAIN f.posts : NotFoundResponse(f.posts[i])
    \/ \E i \in DOMAIN f.starts : NotFoundAnswer(f.starts[i])
    \/ NotFoundResponse(f.lastRead)
    \/ \E i \in DOMAIN f.waitLog : NotFoundAnswer(f.waitLog[i].last.err)
    \/ \E i \in DOMAIN f.pollLog : NotFoundPoll(f.pollLog[i])

\* C15, as stated: a lifecycle method of the client to which the cluster
\* answered not-found returns an error for which IsNotFoundError is true, and
\* never success.
C15_Original ==
    \A f \in Frames :
        (f.op \in LifecycleMethods /\ f.pc = "done" /\ GotNotFound(f)) =>
            (f.result.kind = "api" /\ f.result.status = 404)

\* C15, amended: a not-found answer to the method's own request (the mutating
\* POST, the read of the application, the start of the upgrade) is returned
\* as an error for which IsNotFoundError is true; a not-found answer to a
\* progress poll of an upgrade ends the wait with success; a not-found answer
\* to a status poll of an accepted operation is returned as a plain error
\* for which IsNotFoundError is false.
C15_NotFoundPropagation ==
    \A f \in Frames :
        (f.op \in LifecycleMethods /\ f.pc = "done") =>
            /\ (\E i \in DOMAIN f.posts : NotFoundResponse(f.posts[i])) =>
                  (f.result.kind = "api" /\ f.result.status = 404)
            /\ (f.op = "GetApp" /\ NotFoundResponse(f.lastRead)) =>
                  (f.result.kind = "api" /\ f.result.status = 404)
            /\ (f.starts # <<>> /\ NotFoundAnswer(f.starts[Len(f.starts)])) =>
                  (f.result.kind = "api" /\ f.result.status = 404)
            /\ \A i \in DOMAIN f.starts :
                  NotFoundAnswer(f.starts[i]) => i = Len(f.starts)
            /\ \A i \in DOMAIN f.waitLog :
                  NotFoundAnswer(f.waitLog[i].last.err) =>
                      f.waitLog[i].rv.kind = "nil"
            /\ \A i \in DOMAIN f.pollLog :
                  NotFoundPoll(f.pollLog[i]) =>
                      /\ f.result = f.pollLog[i].rv
                      /\ f.result.kind = "local"

C15_Witness ==
    \E f \in Frames :
        /\ f.op = "Upgrade"
        /\ f.pc = "done"
        /\ f.result.kind = "nil"
        /\ f.waitLog # <<>>
        /\ NotFoundAnswer(f.waitLog[Len(f.waitLog)].last.err)

(***************************************************************************)
(* No request is sent again after a failure (SpecLife).                    *)
(***************************************************************************)
\* C16: ProvisionApplicationType, UnprovisionApplicationType,
\* CreateApplication and DeleteApplication send their POST at most once in a
\* call and return the first error they meet, that of the POST or that of the
\* poller, without another request; the list of GetApplicationTypeVersion is
\* read once; UpgradeApplication starts again only after an upgrade-conflict
\* answer, and GetApplication reads again only after a 202.
C16_NoResend ==
    \A f \in Frames :
        /\ f.op \in PostMethods =>
              /\ Len(f.posts) <= 1
              /\ Len(f.pollLog) <= 1
              /\ f.pc = "done" =>
                    (f.posts = <<>> <=> (f.op = "CreateApp" /\ f.name = ""))
              /\ (f.posts # <<>> /\ f.posts[1].err.kind # "nil") =>
                    /\ f.pc = "done"
                    /\ f.result = f.posts[1].err
                    /\ f.pollLog = <<>>
                    /\ f.sent <= 1
              /\ (f.pollLog # <<>> /\ f.pollLog[1].rv.kind # "nil") =>
                    /\ f.pc \in {"post_polled", "done"}
                    /\ f.rv = f.pollLog[1].rv
                    /\ f.pc = "done" => f.result = f.pollLog[1].rv
                    /\ f.sent <= 1 + f.pollLog[1].reqs
        /\ f.op = "GetTypeVersion" => f.lists <= 1 /\ f.sent <= 1
        /\ f.op = "Upgrade" =>
              \A i \in DOMAIN f.starts :
                  i < Len(f.starts) =>
                      /\ f.starts[i].kind = "api"
                      /\ f.starts[i].status = 409
                      /\ f.starts[i].code = "FABRIC_E_APPLICATION_UPGRADE_IN_PROGRESS"
        /\ f.op = "GetApp" => f.reads <= f.n202 + 1

C16_Witness ==
    \E f \in Frames :
        /\ f.op = "DeleteApp"
        /\ f.pc = "done"
        /\ Len(f.posts) = 1
        /\ f.posts[1].err.kind = "api"
        /\ f.posts[1].err.status = 500
        /\ f.result = f.posts[1].err
        /\ f.sent = 1

(***************************************************************************)
(* GetApplicationTypeVersion (SpecLife).                                   *)
(***************************************************************************)
\* the names and versions of the model that differ only in the case of
\* their letters
CaseClasses ==
    {{"Contoso.App", "CONTOSO.APP", "contoso.app"}, {"1.0.0-RC", "1.0.0-rc"}}

SameIgnoringCase(a, b) == a = b \/ \E k \in CaseClasses : a \in k /\ b \in k

\* the listed items that have the name and the version asked for
Hits(f) ==
    {i \in 1..Len(f.items) :
        /\ SameIgnoringCase(TypeName(f.items[i]), f.name)
        /\ SameIgnoringCase(TypeVersion(f.items[i]), f.version)}

\* C17: from the list it obtained, GetApplicationTypeVersion returns the first
\* item whose type name and version both equal the arguments but for the case
\* of the letters; when no listed item does, it returns a local error that is
\* no typed API error, for which IsNotFoundError is false.
C17_TypeVersionLookup ==
    \A f \in Frames :
        (f.op = "GetTypeVersion" /\ f.pc = "done" /\ f.listErr.kind = "nil") =>
            IF Hits(f) = {}
              THEN /\ f.result.kind = "local"
                   /\ ~IsNotFoundError(f.result)
                   /\ f.item = <<>>
              ELSE /\ f.result.kind = "nil"
                   /\ \E i \in Hits(f) :
                         /\ \A j \in Hits(f) : i <= j
                         /\ f.item = <<f.items[i]>>

C17_Witness ==
    \E f \in Frames :
        /\ f.op = "GetTypeVersion"
        /\ f.pc = "done"
        /\ f.result.kind = "nil"
        /\ f.name = "contoso.app"
        /\ f.version = "1.0.0-rc"
        /\ Len(f.items) = 2
        /\ f.item = <<f.items[2]>>
        /\ f.items[2].Name = "CONTOSO.APP"

(***************************************************************************)
(* Read of a resource that is gone from the cluster (SpecLife).            *)
(***************************************************************************)
\* the cluster's answer says that the resource of the Read is absent
AbsentInCluster(f) ==
    \/ f.op = "AppRead" /\ (NotFoundResponse(f.lastRead) \/ Read204(f))
    \/ f.op = "SvcRead" /\ NotFoundResponse(f.lastRead)
    \/ f.op = "TypeRead" /\ f.listErr.kind = "nil" /\ Hits(f) = {}

\* C18: a Read of the application resource, of the service resource or of the
\* application type resource that finds the resource absent from the cluster
\* removes it from the state and reports no error.
C18_ReadRemovesAbsent ==
    \A f \in Frames :
        (f.pc = "done" /\ AbsentInCluster(f)) =>
            /\ f.removed
            /\ f.diags = <<>>

(***************************************************************************)
(* Delete of a resource that is gone from the cluster (SpecLife).          *)
(***************************************************************************)
DeleteHandlers == {"AppDelete", "SvcDelete", "TypeDelete"}

\* C19: when the cluster answers not-found to the delete request of the
\* application resource, of the service resource or of the application type
\* resource, Delete ends without an error and without a warning, as it does
\* when the resource was deleted.
C19_DeleteOfAbsent ==
    \A f \in Frames :
        (f.op \in DeleteHandlers /\ f.posts # <<>>
                /\ NotFoundResponse(f.posts[1])) =>
            /\ Len(f.posts) = 1
            /\ f.sent = 1
            /\ f.pc \in {"appdelete_ret", "svcdelete_ret", "typedelete_ret", "done"}
            /\ f.pc = "done" =>
                  /\ f.result.kind = "nil"
                  /\ f.diags = <<>>
                  /\ f.warnings = <<>>

C19_Witness ==
    \E f \in Frames :
        /\ f.op = "TypeDelete"
        /\ f.retainVersions = "false"
        /\ f.pc = "done"
        /\ Len(f.posts) = 1
        /\ NotFoundResponse(f.posts[1])
        /\ f.diags = <<>>

(***************************************************************************)
(* Create of an application that exists already (SpecLife).                *)
(***************************************************************************)
\* CreateApplication failed with the already-exists conflict, and Create has
\* acted on it
CreateConflict(f) ==
    /\ f.op = "AppCreate"
    /\ Len(f.posts) = 1
    /\ f.posts[1].method = "Create"
    /\ f.posts[1].err.kind = "api"
    /\ f.posts[1].err.status = 409
    /\ f.posts[1].err.code = "FABRIC_E_APPLICATION_ALREADY_EXISTS"
    /\ f.pc # "appcreate_created"

\* the one upgrade Create asked for, for the name, version and parameters of
\* the plan
UpgradeRequested(f) ==
    /\ Len(f.upgradeDesc) = 1
    /\ f.upgradeDesc[1].Name = f.name
    /\ f.upgradeDesc[1].TargetApplicationTypeVersion = f.version
    /\ f.upgradeDesc[1].ParameterMap = "params"

\* with the option disabled: a creation error and no upgrade
ConflictReported(f) ==
    /\ f.pc = "done"
    /\ f.diags = <<"Failed to create application">>
    /\ f.upgradeDesc = <<>>
    /\ f.starts = <<>>
    /\ f.sent = 1
    /\ ~f.stateSet

Occurrences(s, v) == Cardinality({i \in DOMAIN s : s[i] = v})

\* two sequences hold the same elements the same number of times
SameElements(s, t) ==
    /\ Len(s) = Len(t)
    /\ \A i \in DOMAIN s : Occurrences(s, s[i]) = Occurrences(t, s[i])

\* the capacity of the plan differs from that of the state: one of them is
\* unset, or they differ in a node count or in their metrics, whatever the
\* order of the metrics
CapacityChanged(f) ==
    LET a == expandApplicationCapacity(f.planCapacity)
        b == expandApplicationCapacity(f.stateCapacity)
    IN  \/ (a = <<>>) # (b = <<>>)
        \/ /\ a # <<>>
           /\ b # <<>>
           /\ \/ a[1].MinimumNodes # b[1].MinimumNodes
              \/ a[1].MaximumNodes # b[1].MaximumNodes
              \/ ~SameElements(a[1].ApplicationMetrics, b[1].ApplicationMetrics)

\* a reference with its principal id in lower case
Canonical(r) == [Name |-> r.Name, PrincipalID |-> Fold(r.PrincipalID)]

\* the identity of the plan differs from that of the state: one of them is
\* unset, or they differ in the endpoint or in their references, whatever the
\* order of the references and the case of a principal id
IdentityChanged(f) ==
    LET a == expandManagedApplicationIdentity(f.planIdentity)
        b == expandManagedApplicationIdentity(f.stateIdentity)
    IN  \/ (a = <<>>) # (b = <<>>)
        \/ /\ a # <<>>
           /\ b # <<>>
           /\ \/ a[1].TokenServiceEndpoint # b[1].TokenServiceEndpoint
              \/ ~SameElements(
                     [i \in DOMAIN a[1].IdentityRefs |-> Canonical(a[1].IdentityRefs[i])],
                     [i \in DOMAIN b[1].IdentityRefs |-> Canonical(b[1].IdentityRefs[i])])

\* Update ended with an error before it sent anything
Rejected(f) ==
    /\ f.pc = "done"
    /\ Len(f.diags) = 1
    /\ f.sent = 0
    /\ f.upgradeDesc = <<>>
    /\ ~f.stateSet

\* C21: an Update of the application resource whose plan differs from the
\* state in application_capacity or in managed_application_identity ends with
\* an error and sends no request to the cluster.
C21_CapacityAndIdentityImmutable ==
    \A f \in Frames :
        (f.op = "AppUpdate" /\ f.pc # "res_entry"
                /\ (CapacityChanged(f) \/ IdentityChanged(f))) =>
            Rejected(f)

(***************************************************************************)
(* Update of the service resource (SpecSvc).                               *)
(***************************************************************************)
TopFields == {"PlacementConstraints", "DefaultMoveCost", "ServiceDnsName"}

\* the block of the plan or state m that holds the settings of its kind
KindBlock(m) ==
    CASE m.ServiceKind = "Stateless" -> m.Stateless
      [] m.ServiceKind = "STATEFUL" -> m.Stateful
      [] OTHER -> <<>>

\* the updatable fields of a service of the kind of m
UpdatableFields(m) ==
    TopFields \cup
    (CASE m.ServiceKind = "Stateless" -> DOMAIN StatelessBlock(<<>>)
       [] m.ServiceKind = "STATEFUL" -> DOMAIN StatefulBlock(<<>>)
       [] OTHER -> {})

FieldOf(m, field) ==
    IF field \in TopFields THEN m[field]
    ELSE IF KindBlock(m) = <<>> THEN <<>>
    ELSE KindBlock(m)[1][field]

\* the updatable fields in which the plan of the Update differs from its state
ChangedFields(f) ==
    {field \in UpdatableFields(f.planService[1]) :
        FieldOf(f.planService[1], field) # FieldOf(f.stateService[1], field)}

\* the decimal form of the bit of default_move_cost, by kind
MoveCostFlag(m) == IF m.ServiceKind = "Stateless" THEN "32" ELSE "512"

\* C22: an Update of a service in which default_move_cost, and no other
\* updatable field, differs between state and plan builds a description whose
\* Flags hold the bit of default_move_cost for the kind and no other, and
\* that carries the new move cost and no other updatable field.
C22_OnlyMoveCostBit ==
    \A f \in Frames :
        (/\ f.op = "SvcUpdate"
         /\ f.built # <<>>
         /\ f.planService[1].ServiceKind \in {"Stateless", "STATEFUL"}
         /\ f.planService[1].DefaultMoveCost # <<>>
         /\ ChangedFields(f) = {"DefaultMoveCost"}) =>
            /\ f.built[1].changed
            /\ LET desc == f.built[1].desc[1]
               IN  /\ desc.Flags = MoveCostFlag(f.planService[1])
                   /\ desc.DefaultMoveCost = f.planService[1].DefaultMoveCost
                   /\ \A k \in DOMAIN desc \ {"ServiceKind", "Flags", "DefaultMoveCost"} :
                         desc[k] = <<>>

\* C23: an Update of a service whose plan differs from the state in no
\* updatable field builds no description and never calls UpdateService; it
\* reads the service and nothing else.
C23_NoChangeNoUpdate ==
    \A f \in Frames :
        (f.op = "SvcUpdate" /\ f.built # <<>> /\ ChangedFields(f) = {}) =>
            /\ ~f.built[1].changed
            /\ f.posts = <<>>
            /\ f.pc = "done" => (f.reads = 1 /\ f.sent <= 1)

(***************************************************************************)
(* The partition of a new service (SpecSvc).                               *)
(***************************************************************************)
\* the scheme the partition block of the call names, if it is a known one
SchemeOf(f) ==
    IF f.planPartition = <<>> \/ f.planPartition[1].Scheme = <<>> THEN ""
    ELSE CASE f.planPartition[1].Scheme[1] \in {"Singleton"} -> "Singleton"
           [] f.planPartition[1].Scheme[1] \in {"Named", " named "} -> "Named"
           [] f.planPartition[1].Scheme[1]
                 \in {"UniformInt64Range", "uniform_int64_range"} -> "Uniform"
           [] OTHER -> ""

\* Create has gone through expandServiceDescription
Expanded(f) == f.op = "SvcCreate" /\ f.pc # "res_entry"

\* Create ended with the partition error and sent nothing
PartitionRejected(f) ==
    /\ f.pc = "done"
    /\ f.diags = <<"Invalid partition configuration">>
    /\ f.sent = 0
    /\ f.posts = <<>>
    /\ ~f.stateSet

\* the partition was accepted
PartitionAccepted(f) ==
    /\ f.partition # <<>>
    /\ f.partition[1].err = ""

C25_PartitionEncoding ==
    \A f \in Frames :
        (Expanded(f) /\ PartitionAccepted(f)) =>
            LET m == f.planPartition[1]
            IN  /\ SchemeOf(f) = "Singleton" =>
                      /\ m.Count = <<>>
                      /\ m.Names = <<>>
                      /\ m.LowKey = <<>>
                      /\ m.HighKey = <<>>
                /\ SchemeOf(f) = "Named" =>
                      /\ m.Names # <<>>
                      /\ \E i \in DOMAIN m.Names[1] :
                            m.Names[1][i] \notin {"", " "}
                      /\ m.Count = <<>> =>
                            f.partition[1].desc[1].Count = <<Len(m.Names[1])>>

(***************************************************************************)
(* The internal id and the parameter list (SpecFn).                        *)
(***************************************************************************)
FnFrames == {call[c] : c \in DOMAIN call}

\* C26: the transform from application name to internal id is idempotent:
\* applied to its own result it gives that result again.
C26_IdIdempotent ==
    \A f \in FnFrames :
        (f.op = "Id" /\ f.pc \in {"again", "done"}) => f.again = f.id

\* the name without its one leading prefix, if it has one
WithoutOnePrefix(name) ==
    IF Len(name) >= 2 /\ name[1] = "fabric:" /\ name[2] \in {"/", "\\"}
      THEN SubSeq(name, 3, Len(name))
    ELSE IF Len(name) >= 1 /\ name[1] = "/" THEN Tail(name)
    ELSE name

\* C27: the internal id of a name is the name with one leading prefix
\* removed, never two, and every separator left replaced by "~"; and Delete,
\* Get, Upgrade and GetUpgradeProgress put that id into their path.
C27_OnePrefixRemoved ==
    \A f \in FnFrames :
        /\ (f.op = "Id" /\ f.pc # "start") =>
              /\ Len(f.id) = Len(WithoutOnePrefix(f.name))
              /\ \A i \in DOMAIN f.id :
                    f.id[i] = IF WithoutOnePrefix(f.name)[i] = "/" THEN "~"
                              ELSE WithoutOnePrefix(f.name)[i]
        /\ (f.op = "Id" /\ f.pc = "done") =>
              /\ Head(f.path) = "/Applications/"
              /\ SubSeq(f.path, 2, 1 + Len(f.id)) = PathEscape(f.id)

\* the key/value pairs of a parameter list and of a parameter map
PairsOfList(list) == {<<list[i].Key, list[i].Value>> : i \in DOMAIN list}

PairsOfMap(m) == {<<k, m[k]>> : k \in DOMAIN m}

\* the keys of the list ascend strictly
Ascending(list) ==
    \A i, j \in DOMAIN list :
        i < j => KeyRank(list[i].Key) < KeyRank(list[j].Key)

\* C28: a parameter map converted to a list by mapToParameterList and back
\* by ParameterListToMap is the map it was, the empty map included, and the
\* list is in strictly ascending key order for every order in which the map
\* is iterated.
C28_ParameterRoundTrip ==
    \A f \in FnFrames :
        /\ (f.op = "Params" /\ f.pc \in {"listed", "done"}) =>
              /\ Ascending(f.list)
              /\ Len(f.list) = Cardinality(DOMAIN f.m)
        /\ (f.op = "Params" /\ f.pc = "done") =>
              /\ DOMAIN f.back = DOMAIN f.m
              /\ \A k \in DOMAIN f.m : f.back[k] = f.m[k]

C28_Witness ==
    \E f \in FnFrames :
        /\ f.op = "Params" /\ f.pc = "done"
        /\ Cardinality(DOMAIN f.m) = 4
        /\ f.order = <<"env", "Zone", "count", "Env">>
        /\ f.list[1].Key = "Env" /\ f.list[4].Key = "env"
        /\ DOMAIN f.back = DOMAIN f.m

\* the list of the body a call has sent, and the map and the list of the
\* description it was given
SentList(f) ==
    IF f.op = "Create" THEN f.body[1].ParameterList ELSE f.body[1].Parameters

GivenMap(f) ==
    IF f.op = "Create" THEN f.app.ParameterMap ELSE f.desc.ParameterMap

GivenList(f) ==
    IF f.op = "Create" THEN f.app.ParameterList ELSE f.desc.Parameters

Submitted(f) == f.op \in {"Create", "Upgrade"} /\ f.pc = "sent"

\* C29 as stated: the parameter list CreateApplication and UpgradeApplication
\* submit holds exactly the pairs of the parameter map of the description,
\* in ascending key order.
C29_Original ==
    \A f \in FnFrames :
        Submitted(f) =>
            /\ PairsOfList(SentList(f)) = PairsOfMap(GivenMap(f))
            /\ Len(SentList(f)) = Cardinality(DOMAIN GivenMap(f))
            /\ Ascending(SentList(f))

\* C29: when the description carries no parameter list of its own, the list
\* CreateApplication and UpgradeApplication submit holds exactly the pairs of
\* its parameter map, in ascending key order; a list the description already
\* carries is submitted as it is, whatever the map holds.
C29_SubmittedParameters ==
    \A f \in FnFrames :
        Submitted(f) =>
            IF Len(GivenList(f)) = 0
              THEN /\ PairsOfList(SentList(f)) = PairsOfMap(GivenMap(f))
                   /\ Len(SentList(f)) = Cardinality(DOMAIN GivenMap(f))
                   /\ Ascending(SentList(f))
              ELSE SentList(f) = GivenList(f)

C29_Witness ==
    \E f \in FnFrames :
        /\ Submitted(f)
        /\ f.op = "Create"
        /\ Len(GivenList(f)) = 0
        /\ Cardinality(DOMAIN GivenMap(f)) = 3
        /\ Len(SentList(f)) = 3

(***************************************************************************)
(* The empty application name (SpecLife).                                  *)
(***************************************************************************)
\* a call of CreateApplication or UpgradeApplication without a name
Nameless(f) == f.op \in {"CreateApp", "Upgrade"} /\ f.name = ""

\* C30: CreateApplication and UpgradeApplication called with an empty
\* application name return the local error "application name required";
\* they send nothing to the cluster, start no upgrade, wait for none and do
\* not try again.
C30_EmptyNameIsLocal ==
    \A f \in Frames :
        Nameless(f) =>
            /\ f.sent = 0
            /\ f.posts = <<>>
            /\ f.starts = <<>>
            /\ f.waits = 0
            /\ f.polls = 0
            /\ f.pollReqs = 0
            /\ f.pc = "done" => f.result = errNameRequired

C30_Witness ==
    \E f \in Frames :
        /\ Nameless(f)
        /\ f.op = "Upgrade"
        /\ f.pc = "done"
        /\ f.result = errNameRequired
        /\ f.sent = 0

(***************************************************************************)
(* The requests on the wire and the client's configuration (SpecHttp).     *)
(***************************************************************************)
HttpFrames == {call[c] : c \in DOMAIN call}

\* the api-version values the caller of doRequest, or the polled Location,
\* supplies
Supplied(f) ==
    IF f.op = "pollOperation" THEN f.location[1].url.Query ELSE f.query

\* C31 as stated: every request carries a non-empty api-version; it is the
\* value the caller's query or the polled Location supplies, if one is
\* supplied, and the configured version otherwise.
C31_Original ==
    \A f \in HttpFrames :
        \A i \in DOMAIN f.log :
            /\ Get(f.log[i].url.Query) # ""
            /\ IF Get(Supplied(f)) # ""
                 THEN Get(f.log[i].url.Query) = Get(Supplied(f))
                 ELSE f.log[i].url.Query = <<client.apiVersion>>

\* the api-version values the request is built from: those of the
\* endpoint's query followed by the supplied ones, except for an absolute
\* Location, which is used alone
Offered(f) ==
    IF f.op = "pollOperation" /\ f.location[1].url.Abs THEN Supplied(f)
    ELSE client.endpoint.Query \o Supplied(f)

\* C31: every request carries a non-empty api-version.  The values it
\* carries are those of the endpoint's own query followed by those of the
\* caller's query or of the relative Location (those of an absolute Location
\* alone), when the first of them is not empty; otherwise the request carries
\* the configured version and nothing else.
C31_ApiVersionPresent ==
    \A f \in HttpFrames :
        \A i \in DOMAIN f.log :
            /\ Get(f.log[i].url.Query) # ""
            /\ client.apiVersion # ""
            /\ IF Get(Offered(f)) # ""
                 THEN f.log[i].url.Query = Offered(f)
                 ELSE f.log[i].url.Query = <<client.apiVersion>>

C31_Witness ==
    \E f \in HttpFrames :
        /\ f.op = "pollOperation"
        /\ Len(f.log) = 2
        /\ ~f.location[1].url.Abs
        /\ client.endpoint.Query = <<"5.0">>
        /\ f.log[2].url.Query = <<"5.0", "7.0">>
        /\ call[1].op = "doRequest"
        /\ call[1].query = <<"">>
        /\ Len(call[1].log) = 1
        /\ call[1].log[1].url.Query = <<"5.0", "">>

\* C32: with an authenticator configured, every request of doRequest and
\* every poll of pollOperation is sent with the credentials Apply attached
\* to it, Apply having been called once for each; when Apply fails, that
\* request is not sent and the operation ends with Apply's error.
C32_ApplyBeforeSend ==
    \A f \in HttpFrames :
        client.auth # "" =>
            /\ \A i \in DOMAIN f.log : f.log[i].credentials
            /\ f.pc \in {"build", "apply", "prepare"} /\ ~f.applyFailed =>
                  Len(f.log) = f.applies
            /\ f.pc = "do" => (f.credentials /\ Len(f.log) = f.applies - 1)
            /\ f.applyFailed =>
                  /\ f.pc = "done"
                  /\ f.err = "apply"
                  /\ Len(f.log) = f.applies - 1

C32_Witness ==
    \E f \in HttpFrames :
        /\ client.auth # ""
        /\ f.op = "pollOperation"
        /\ Len(f.log) = 2
        /\ f.applies = 3
        /\ f.applyFailed
        /\ f.err = "apply"

\* C34: no step of a call changes the client: its endpoint, API version,
\* HTTP client and authenticator stay what NewClient made them, with two
\* callers at work; nor does a call change the description its caller passed.
C34_ClientImmutable ==
    [][/\ client' = client
       /\ \A c \in DOMAIN call : call'[c].arg = call[c].arg]_vars

\* both callers have sent requests built from an endpoint with a path and a
\* query of its own
C34_Witness ==
    /\ client.endpoint.Path = <<"/", "gw", "/">>
    /\ client.endpoint.Query = <<"5.0">>
    /\ call[1].op = "CreateApplication"
    /\ Len(call[1].log) = 1
    /\ call[1].log[1].url.Path =
          <<"/", "gw", "/", "Applications", "/", "$", "/", "Create">>
    /\ call[1].body # call[1].arg
    /\ Len(call[2].log) = 2
    /\ call[2].log[2].url.Path = <<"/", "gw", "/", "op">>

(***************************************************************************)
(* Destroy of an application type version (SpecLife).                      *)
(***************************************************************************)
TypeDeleted(f) == f.op = "TypeDelete" /\ f.pc = "done"

\* C33: Delete of the application type resource calls Unprovision exactly
\* when retain_versions is false, an unset retain_versions counting as
\* false; with retain_versions true it sends nothing to the cluster.
C33_UnprovisionUnlessRetained ==
    \A f \in Frames :
        TypeDeleted(f) =>
            /\ (f.posts # <<>>) <=> (f.retainVersions \in {"false", ""})
            /\ f.retainVersions = "true" => (f.sent = 0 /\ f.posts = <<>>)

\* Delete has called Unprovision and got err back
Unprovisioned(f) ==
    /\ TypeDeleted(f)
    /\ f.retainVersions = "false"
    /\ f.posts # <<>>

\* C39: when Unprovision fails because the version is still in use, Delete
\* reports a warning and no error, so that the resource leaves the state;
\* when it fails in any way other than not-found and in-use, Delete reports
\* an error, so that the resource stays in the state.
C39_InUseIsWarning ==
    \A f \in Frames :
        Unprovisioned(f) =>
            /\ IsApplicationTypeInUseError(f.rv) =>
                  /\ f.warnings = <<"Application type still in use">>
                  /\ f.diags = <<>>
            /\ (f.rv # Nil /\ ~IsNotFoundError(f.rv)
                    /\ ~IsApplicationTypeInUseError(f.rv)) =>
                  /\ f.diags = <<"Failed to unprovision application type">>
                  /\ f.warnings = <<>>
            /\ (f.rv = Nil \/ IsNotFoundError(f.rv)) =>
                  (f.diags = <<>> /\ f.warnings = <<>>)

C39_Witness ==
    \E f \in Frames :
        /\ Unprovisioned(f)
        /\ IsApplicationTypeInUseError(f.rv)
        /\ f.warnings = <<"Application type still in use">>
        /\ f.diags = <<>>
        /\ f.sent = 1

(***************************************************************************)
(* Update of an application: when an upgrade starts (SpecUpd).             *)
(***************************************************************************)
\* Update has passed the checks of type name, capacity and identity
PastChecks(f) ==
    /\ f.op = "AppUpdate"
    /\ f.pc # "res_entry"
    /\ ~(f.pc = "done" /\ f.upgradeDesc = <<>> /\ f.reads = 0 /\ f.diags # <<>>)

\* the planned parameter map differs from that of the state: another set of
\* keys, or another value for a key (a plan without the attribute plans no
\* change)
ParametersDiffer(f) ==
    /\ f.planParameters # <<>>
    /\ \/ DOMAIN f.planParameters[1] # DOMAIN stateParams(f)
       \/ \E k \in DOMAIN f.planParameters[1] :
             f.planParameters[1][k] # stateParams(f)[k]

\* C36: Update of the application resource starts an upgrade exactly when
\* the planned type version differs from that of the state or the planned
\* parameter map differs from that of the state; when neither differs it
\* sends no upgrade request and re-reads the application.
C36_UpgradeIffChanged ==
    \A f \in Frames :
        PastChecks(f) =>
            /\ (f.upgradeDesc # <<>>) <=>
                  (f.version # f.stateVersion \/ ParametersDiffer(f))
            /\ ~(f.version # f.stateVersion \/ ParametersDiffer(f)) =>
                  (f.starts = <<>> /\ f.upgradeDesc = <<>>)

(***************************************************************************)
(* The Flags of a service update (SpecSvc).                                *)
(***************************************************************************)
\* the bit of each field of an update description, by kind
StatelessBits ==
    [InstanceCount |-> 1, PlacementConstraints |-> 2, DefaultMoveCost |-> 32,
     MinInstanceCount |-> 128, MinInstancePercentage |-> 256,
     InstanceCloseDelayDurationSeconds |-> 512,
     InstanceRestartWaitDurationSeconds |-> 1024, ServiceDnsName |-> 2048]

StatefulBits ==
    [TargetReplicaSetSize |-> 1, ReplicaRestartWaitDurationSeconds |-> 2,
     QuorumLossWaitDurationSeconds |-> 4,
     StandByReplicaKeepDurationSeconds |-> 8, MinReplicaSetSize |-> 16,
     PlacementConstraints |-> 32, DefaultMoveCost |-> 512,
     ServicePlacementTimeLimitSeconds |-> 2048, ServiceDnsName |-> 8192]

BitsOf(desc) ==
    IF desc.ServiceKind = "Stateless" THEN StatelessBits ELSE StatefulBits

RECURSIVE SumOver(_, _)
SumOver(bits, fields) ==
    IF fields = {} THEN 0
    ELSE LET k == CHOOSE k \in fields : TRUE
         IN  bits[k] + SumOver(bits, fields \ {k})

\* the number whose bits are those of the fields the description carries
FlagsOfPresent(desc) ==
    SumOver(BitsOf(desc), {k \in DOMAIN BitsOf(desc) : desc[k] # <<>>})

Built(f) == f.op = "SvcUpdate" /\ f.built # <<>> /\ f.built[1].changed

\* C37: in every update description that buildUpdateDescription builds,
\* Flags is the decimal number whose bits are exactly those of the fields
\* the description carries, the fields of one kind having distinct bits; and
\* UpdateService is not called with Flags 0.
C37_FlagsMatchFields ==
    /\ \A bits \in {StatelessBits, StatefulBits} :
          \A j, k \in DOMAIN bits : bits[j] = bits[k] => j = k
    /\ \A f \in Frames :
          /\ Built(f) =>
                /\ DOMAIN BitsOf(f.built[1].desc[1])
                      = DOMAIN f.built[1].desc[1] \ {"ServiceKind", "Flags"}
                /\ f.built[1].desc[1].Flags
                      = ToString(FlagsOfPresent(f.built[1].desc[1]))
                /\ f.built[1].desc[1].Flags # "0"
          /\ (f.op = "SvcUpdate" /\ f.posts # <<>>) => Built(f)

C37_Witness ==
    \E f \in Frames :
        /\ Built(f)
        /\ f.posts # <<>>
        /\ f.built[1].desc[1].ServiceKind = "Stateful"
        /\ f.built[1].desc[1].Flags = "10815"
        /\ f.built[1].desc[1].PlacementConstraints = <<"">>
        /\ f.built[1].desc[1].QuorumLossWaitDurationSeconds = <<"0">>

(***************************************************************************)
(* Whose upgrade failed (SpecRival).                                       *)
(***************************************************************************)
ReturnedUpgradeFailed(f) ==
    /\ f.pc = "done"
    /\ f.result.kind = "local"
    /\ f.result.msg # <<>>
    /\ f.result.msg[1] = "application upgrade failed"

\* C38: a call of UpgradeApplication returns the "application upgrade
\* failed" error only when an upgrade that the call itself started ended in
\* RollingBackCompleted or Failed, whatever the other caller's upgrades do.
C38_OnlyOwnUpgradeFails ==
    \A c \in DOMAIN call :
        ReturnedUpgradeFailed(call[c]) => c \in cluster.failed

(***************************************************************************)
(* What a failed Create leaves in the cluster (SpecLife).                  *)
(***************************************************************************)
\* the cluster answered the create or provision request of the call with
\* success at once
CreatedInCluster(f) ==
    \E i \in DOMAIN f.posts :
        /\ f.posts[i].method \in {"Create", "Provision"}
        /\ f.posts[i].err = Nil
        /\ f.posts[i].status # StatusAccepted

FailedCreate(f) ==
    /\ f.op \in {"AppCreate", "TypeCreate"}
    /\ f.pc = "done"
    /\ f.diags # <<>>
    /\ ~f.stateSet

\* C40: a Create of the application resource or of the application type
\* resource that ends with an error and saves no state has created nothing
\* in the cluster.
C40_FailedCreateCreatesNothing ==
    \A f \in Frames : FailedCreate(f) => ~CreatedInCluster(f)

(***************************************************************************)
(* Termination of the two polling loops (SpecWaitFair).                    *)
(***************************************************************************)
Returned == call[Caller].pc = "done"

Released == ~ClusterUpgrading(cluster) \/ call[Caller].cancelled

====
